---- MODULE Spec2Model ----
(***************************************************************************)
(* Model of the image-sanitizer format engine:                             *)
(*   sfFileFormatValidator  (signature matching, dimension parsing,        *)
(*                           structural verification, extension rules)     *)
(*   sfFileFormatAnalyzer   (the streaming orchestrator, analyze)          *)
(* Bytes are integers 0..255, a byte buffer (Uint8Array) is a sequence of  *)
(* bytes; JavaScript offsets are 0-based, sequences are 1-based.           *)
(* A JavaScript value that may be null/undefined is a sequence of length   *)
(* 0 (null) or 1 (the value).                                              *)
(***************************************************************************)
EXTENDS Integers, Sequences, FiniteSets, TLC

Null == <<>>
Some(x) == <<x>>
IsNull(v) == v = <<>>
Get(v) == v[1]

Min(a, b) == IF a < b THEN a ELSE b
Max(a, b) == IF a > b THEN a ELSE b

(* bytes[i] for an in-range 0-based index i *)
At(bytes, i) == bytes[i + 1]

(* Uint8Array.prototype.slice(start, end): negative indexes count from the *)
(* end, both are clamped to the buffer.                                    *)
RelIndex(k, len) == IF k < 0 THEN Max(len + k, 0) ELSE Min(k, len)
slice(bytes, start, end) ==
  LET from == RelIndex(start, Len(bytes))
      to   == RelIndex(end, Len(bytes))
  IN  IF to <= from THEN <<>> ELSE SubSeq(bytes, from + 1, to)

(* DataView reads; the caller guarantees the read is in range *)
getUint16BE(bytes, o) == At(bytes, o) * 256 + At(bytes, o + 1)
getUint16LE(bytes, o) == At(bytes, o) + At(bytes, o + 1) * 256
(* getUint32: a value of 2^30 or more lies beyond every buffer of the model *)
(* and is kept as 2^30 (the checker's integers are 32 bits wide, the        *)
(* source's numbers are doubles and do not wrap)                            *)
getUint32BE(bytes, o) ==
  IF At(bytes, o) >= 64 THEN 1073741824
  ELSE At(bytes, o) * 16777216 + At(bytes, o + 1) * 65536
         + At(bytes, o + 2) * 256 + At(bytes, o + 3)
getInt32LE(bytes, o) ==
  LET top == At(bytes, o + 3)
  IN  At(bytes, o) + At(bytes, o + 1) * 256 + At(bytes, o + 2) * 65536
        + (IF top >= 128 THEN top - 256 ELSE top) * 16777216
Abs(n) == IF n < 0 THEN 0 - n ELSE n

(* String.prototype.toLowerCase on one decoded ASCII byte *)
toLowerCase(b) == IF b >= 65 /\ b <= 90 THEN b + 32 ELSE b

(***************************************************************************)
(* sfFileFormatValidator                                                   *)
(***************************************************************************)

(* bounds check without the comparison: reads past the end as a match *)
checkBytes_NoBoundsCheck(uint8Array, bytesToCheck, offset) ==
  LET actualBytes == slice(uint8Array, offset, offset + Len(bytesToCheck))
  IN  \A i \in 1..Len(actualBytes) : actualBytes[i] = bytesToCheck[i]

checkBytes(uint8Array, bytesToCheck, offset) ==
  IF Len(uint8Array) < offset + Len(bytesToCheck)
  THEN FALSE
  ELSE LET actualBytes == slice(uint8Array, offset, offset + Len(bytesToCheck))
       IN  \A i \in 1..Len(bytesToCheck) :
             i <= Len(actualBytes) /\ actualBytes[i] = bytesToCheck[i]

PNG_SIG  == <<137, 80, 78, 71, 13, 10, 26, 10>>
JPEG_SIG == <<255, 216>>
GIF_SIG  == <<71, 73, 70, 56>>
RIFF     == <<82, 73, 70, 70>>
WEBP     == <<87, 69, 66, 80>>
BMP_SIG  == <<66, 77>>
ICO_SIG  == <<0, 0, 1, 0>>
TIFF_LE  == <<73, 73, 42, 0>>
TIFF_BE  == <<77, 77, 0, 42>>
JP2_SIG  == <<0, 0, 0, 12, 106, 80, 32, 32, 13, 10, 135, 10>>
FTYP     == <<102, 116, 121, 112>>
BRAND_avif == <<97, 118, 105, 102>>
HEIC_BRANDS ==
  { <<104, 101, 105, 99>>, <<104, 101, 105, 120>>,
    <<104, 101, 118, 99>>, <<104, 101, 105, 109>> }
SVG_TAG  == <<60, 115, 118, 103>>
TYPE_acTL == <<97, 99, 84, 76>>
TYPE_IDAT == <<73, 68, 65, 84>>
TYPE_IHDR == <<73, 72, 68, 82>>
TYPE_IEND == <<73, 69, 78, 68>>
TYPE_ihdr == <<105, 104, 100, 114>>

(* _isAPNG: chunk walk from offset 8; TRUE when acTL is met before IDAT *)
RECURSIVE isAPNG_From(_, _)
isAPNG_From(uint8Array, i) ==
  IF ~(i < Len(uint8Array)) THEN FALSE
  ELSE IF i + 8 > Len(uint8Array) THEN FALSE
  ELSE LET length == getUint32BE(uint8Array, i)
           type   == slice(uint8Array, i + 4, i + 8)
           nextChunkPos == i + 12 + length
       IN  IF type = TYPE_acTL THEN TRUE
           ELSE IF type = TYPE_IDAT THEN FALSE
           ELSE IF nextChunkPos <= i THEN FALSE
           ELSE isAPNG_From(uint8Array, nextChunkPos)

(* the walk without the 4 CRC bytes of each chunk *)
RECURSIVE isAPNG_NoCrc_From(_, _)
isAPNG_NoCrc_From(uint8Array, i) ==
  IF ~(i < Len(uint8Array)) THEN FALSE
  ELSE IF i + 8 > Len(uint8Array) THEN FALSE
  ELSE LET length == getUint32BE(uint8Array, i)
           type   == slice(uint8Array, i + 4, i + 8)
           nextChunkPos == i + 8 + length
       IN  IF type = TYPE_acTL THEN TRUE
           ELSE IF type = TYPE_IDAT THEN FALSE
           ELSE IF nextChunkPos <= i THEN FALSE
           ELSE isAPNG_NoCrc_From(uint8Array, nextChunkPos)

isAPNG_NoCrc(uint8Array) == isAPNG_NoCrc_From(uint8Array, 8)

isAPNG(uint8Array) == isAPNG_From(uint8Array, 8)

(* TextDecoder().decode(bytes.slice(0, 256)).toLowerCase().includes("<svg") *)
(* an ASCII byte always decodes to itself, so the test is on the bytes      *)
svgTextMatch(bytes) ==
  LET textStart == slice(bytes, 0, 256)
  IN  \E k \in 0..(Len(textStart) - 4) :
        \A j \in 1..4 : toLowerCase(textStart[k + j]) = SVG_TAG[j]

(* formatCheckers[format](bytes): Null, or Some record with the magic number *)
formatCheckers(format, bytes) ==
  CASE format = "png" ->
         IF checkBytes(bytes, PNG_SIG, 0)
         THEN Some([magicNumber |-> Some(PNG_SIG)]) ELSE Null
    [] format = "apng" ->
         IF checkBytes(bytes, PNG_SIG, 0) /\ isAPNG(bytes)
         THEN Some([magicNumber |-> Some(PNG_SIG)]) ELSE Null
    [] format = "jpeg" ->
         IF checkBytes(bytes, JPEG_SIG, 0)
         THEN Some([magicNumber |-> Some(slice(bytes, 0, 3))]) ELSE Null
    [] format = "gif" ->
         IF checkBytes(bytes, GIF_SIG, 0)
         THEN Some([magicNumber |-> Some(GIF_SIG)]) ELSE Null
    [] format = "webp" ->
         IF checkBytes(bytes, RIFF, 0) /\ checkBytes(bytes, WEBP, 8)
         THEN Some([magicNumber |-> Some(slice(bytes, 0, 12))]) ELSE Null
    [] format = "svg" ->
         IF svgTextMatch(bytes)
         THEN Some([magicNumber |-> Null]) ELSE Null
    [] format = "bmp" ->
         IF checkBytes(bytes, BMP_SIG, 0)
         THEN Some([magicNumber |-> Some(BMP_SIG)]) ELSE Null
    [] format = "ico" ->
         IF checkBytes(bytes, ICO_SIG, 0)
         THEN Some([magicNumber |-> Some(ICO_SIG)]) ELSE Null
    [] format = "tiff" ->
         IF checkBytes(bytes, TIFF_LE, 0)
         THEN Some([magicNumber |-> Some(TIFF_LE)])
         ELSE IF checkBytes(bytes, TIFF_BE, 0)
         THEN Some([magicNumber |-> Some(TIFF_BE)]) ELSE Null
    [] format = "jpeg2000" ->
         IF checkBytes(bytes, JP2_SIG, 0)
         THEN Some([magicNumber |-> Some(JP2_SIG)]) ELSE Null
    [] format = "avif" ->
         IF checkBytes(bytes, FTYP, 4) /\ slice(bytes, 8, 12) = BRAND_avif
         THEN Some([magicNumber |-> Some(slice(bytes, 4, 12))]) ELSE Null
    [] format = "heic" ->
         IF checkBytes(bytes, FTYP, 4) /\ slice(bytes, 8, 12) \in HEIC_BRANDS
         THEN Some([magicNumber |-> Some(slice(bytes, 4, 12))]) ELSE Null
    [] OTHER -> Null

(* Object.keys(formatCheckers): the fixed enumeration order of pass 2 *)
allFormats ==
  << "png", "apng", "jpeg", "gif", "webp", "svg", "bmp", "ico", "tiff",
     "jpeg2000", "avif", "heic" >>

(* the table with plain png tried before apng *)
getPrimaryFormatsFromExtension_PngFirst(extension) ==
  CASE extension \in {"jpg", "jpeg", "jfif"} -> <<"jpeg">>
    [] extension = "png" -> <<"png", "apng">>
    [] extension = "gif" -> <<"gif">>
    [] extension = "webp" -> <<"webp">>
    [] extension = "svg" -> <<"svg">>
    [] extension = "bmp" -> <<"bmp">>
    [] extension = "ico" -> <<"ico">>
    [] extension \in {"tif", "tiff"} -> <<"tiff">>
    [] extension \in {"jp2", "jpx"} -> <<"jpeg2000">>
    [] extension = "avif" -> <<"avif">>
    [] extension \in {"heic", "heif"} -> <<"heic">>
    [] OTHER -> <<>>

getPrimaryFormatsFromExtension(extension) ==
  CASE extension \in {"jpg", "jpeg", "jfif"} -> <<"jpeg">>
    [] extension = "png" -> <<"apng", "png">>
    [] extension = "gif" -> <<"gif">>
    [] extension = "webp" -> <<"webp">>
    [] extension = "svg" -> <<"svg">>
    [] extension = "bmp" -> <<"bmp">>
    [] extension = "ico" -> <<"ico">>
    [] extension \in {"tif", "tiff"} -> <<"tiff">>
    [] extension \in {"jp2", "jpx"} -> <<"jpeg2000">>
    [] extension = "avif" -> <<"avif">>
    [] extension \in {"heic", "heif"} -> <<"heic">>
    [] OTHER -> <<>>

Range(s) == { s[i] : i \in 1..Len(s) }

(* the index of the first format of the list whose checker matches, or 0 *)
firstMatch(formats, uint8Array) ==
  IF \A k \in 1..Len(formats) : IsNull(formatCheckers(formats[k], uint8Array))
  THEN 0
  ELSE CHOOSE k \in 1..Len(formats) :
         /\ ~IsNull(formatCheckers(formats[k], uint8Array))
         /\ \A j \in 1..(k - 1) : IsNull(formatCheckers(formats[j], uint8Array))

passResult(formats, k, uint8Array) ==
  IF k = 0
  THEN [invoked |-> formats, result |-> Null]
  ELSE [invoked |-> SubSeq(formats, 1, k),
        result  |-> Some([format |-> formats[k],
                          magicNumber |->
                            Get(formatCheckers(formats[k], uint8Array)).magicNumber])]

(* one pass of getFormat over a list of formats: the checkers are invoked  *)
(* in order up to and including the first that matches                     *)
scanFormats(formats, uint8Array) ==
  passResult(formats, firstMatch(formats, uint8Array), uint8Array)

(* getFormat without the second pass *)
getFormatRun_NoFallback(uint8Array, extension) ==
  scanFormats(getPrimaryFormatsFromExtension(extension), uint8Array)

remainingFormats(primaryFormats) ==
  SelectSeq(allFormats, LAMBDA f : f \notin Range(primaryFormats))

secondPass(pass1, primaryFormats, uint8Array) ==
  IF ~IsNull(pass1.result)
  THEN pass1
  ELSE [invoked |-> pass1.invoked
                      \o scanFormats(remainingFormats(primaryFormats), uint8Array).invoked,
        result  |-> scanFormats(remainingFormats(primaryFormats), uint8Array).result]

(* getFormat: the result and the checkers it invoked, in order *)
getFormatRun(uint8Array, extension) ==
  secondPass(scanFormats(getPrimaryFormatsFromExtension(extension), uint8Array),
             getPrimaryFormatsFromExtension(extension), uint8Array)

getFormat(uint8Array, extension) == getFormatRun(uint8Array, extension).result

(* getDimensions: Null, or Some([width, height]); a DataView read outside  *)
(* the buffer throws RangeError, which getDimensions catches (null)        *)
parsePNGDimensions(bytes) ==
  IF checkBytes(bytes, TYPE_IHDR, 12)
  THEN IF Len(bytes) < 24 THEN Null
       ELSE Some([width |-> getUint32BE(bytes, 16), height |-> getUint32BE(bytes, 20)])
  ELSE Null

RECURSIVE parseJPEGDimensions_From(_, _)
parseJPEGDimensions_From(bytes, i) ==
  IF ~(i < Len(bytes) - 8) THEN Null
  ELSE IF At(bytes, i) = 255
       THEN LET marker == At(bytes, i + 1)
            IN  IF marker = 192 \/ marker = 194
                THEN Some([width  |-> getUint16BE(bytes, i + 7),
                           height |-> getUint16BE(bytes, i + 5)])
                ELSE LET segmentLength == At(bytes, i + 2) * 256 + At(bytes, i + 3)
                     IN  parseJPEGDimensions_From(bytes, i + segmentLength + 1 + 1)
       ELSE parseJPEGDimensions_From(bytes, i + 1)

parseJPEGDimensions(bytes) == parseJPEGDimensions_From(bytes, 4)

parseGIFDimensions(bytes) ==
  IF Len(bytes) < 10 THEN Null
  ELSE Some([width |-> getUint16LE(bytes, 6), height |-> getUint16LE(bytes, 8)])

parseBMPDimensions(bytes) ==
  IF Len(bytes) < 26 THEN Null
  ELSE Some([width |-> getInt32LE(bytes, 18), height |-> Abs(getInt32LE(bytes, 22))])

ihdrBoxAt(bytes, i) ==
  IF i + 12 > Len(bytes) THEN Null
  ELSE Some([width  |-> getUint32BE(bytes, i + 8),
             height |-> getUint32BE(bytes, i + 4)])

parseJPEG2000Dimensions(bytes) ==
  IF \A i \in 0..(Len(bytes) - 9) : ~checkBytes(bytes, TYPE_ihdr, i)
  THEN Null
  ELSE ihdrBoxAt(bytes, CHOOSE i \in 0..(Len(bytes) - 9) :
                          /\ checkBytes(bytes, TYPE_ihdr, i)
                          /\ \A j \in 0..(i - 1) : ~checkBytes(bytes, TYPE_ihdr, j))

getDimensions(format, uint8Array) ==
  CASE format \in {"png", "apng"} -> parsePNGDimensions(uint8Array)
    [] format = "jpeg" -> parseJPEGDimensions(uint8Array)
    [] format = "gif" -> parseGIFDimensions(uint8Array)
    [] format = "bmp" -> parseBMPDimensions(uint8Array)
    [] format = "jpeg2000" -> parseJPEG2000Dimensions(uint8Array)
    [] OTHER -> Null

(* the reasons of the structural verification (the source's Korean texts)  *)
(* a string is kept as the sequence of its literal and interpolated pieces  *)
REASON_PNG_IEND  == <<"PNG: IEND chunk corrupted or missing">>
REASON_JPEG_EOI  == <<"JPEG: EOI marker not found">>

(* IEND looked for 12 bytes before the end (the chunk start, not its type) *)
verifyPNGStructure_AtChunkStart(bytes) ==
  IF checkBytes(bytes, TYPE_IEND, Len(bytes) - 12)
  THEN [isValid |-> TRUE, reason |-> Null]
  ELSE [isValid |-> FALSE, reason |-> Some(REASON_PNG_IEND)]

verifyPNGStructure(bytes) ==
  IF checkBytes(bytes, TYPE_IEND, Len(bytes) - 8)
  THEN [isValid |-> TRUE, reason |-> Null]
  ELSE [isValid |-> FALSE, reason |-> Some(REASON_PNG_IEND)]

verifyJPEGStructure(bytes) ==
  IF \E i \in 0..(Len(bytes) - 2) : At(bytes, i) = 255 /\ At(bytes, i + 1) = 217
  THEN [isValid |-> TRUE, reason |-> Null]
  ELSE [isValid |-> FALSE, reason |-> Some(REASON_JPEG_EOI)]

verifyStructure(format, fileBytes) ==
  CASE format \in {"png", "apng"} -> verifyPNGStructure(fileBytes)
    [] format = "jpeg" -> verifyJPEGStructure(fileBytes)
    [] OTHER -> [isValid |-> TRUE, reason |-> Null]

(* the rule table alone, without the two special cases *)
isExtensionValid_TableOnly(detectedFormat, extension) ==
  IF IsNull(detectedFormat) THEN FALSE
  ELSE Get(detectedFormat) \in Range(getPrimaryFormatsFromExtension(extension))

(* every detected format accepted *)
isExtensionValid_Always(detectedFormat, extension) ==
  ~IsNull(detectedFormat)

(* isExtensionValid(detectedFormat, extension); detectedFormat may be null *)
isExtensionValid(detectedFormat, extension) ==
  IF IsNull(detectedFormat) THEN FALSE
  ELSE IF Get(detectedFormat) = "apng" /\ extension = "png" THEN TRUE
  ELSE IF Get(detectedFormat) = "png" /\ extension = "apng" THEN FALSE
  ELSE Get(detectedFormat) \in Range(getPrimaryFormatsFromExtension(extension))

(* String.prototype.toLowerCase on the name segments the model uses *)
lowerCaseOf(segment) ==
  CASE segment = "PNG" -> "png"
    [] segment = "JPG" -> "jpg"
    [] segment = "Photo" -> "photo"
    [] OTHER -> segment

(* getExtension: fileName.split(".").pop().toLowerCase(); a file name is   *)
(* kept as the non-empty sequence of its "."-separated segments            *)
getExtension(fileName) == lowerCaseOf(fileName[Len(fileName)])

(***************************************************************************)
(* Input files: minimal samples of every container, damaged variants, and  *)
(* buffers that match no signature or more than one                        *)
(***************************************************************************)
PNG_IHDR_CHUNK == <<0, 0, 0, 13, 73, 72, 68, 82, 0, 0, 0, 3, 0, 0, 0, 2, 8, 2, 0, 0, 0, 1, 2, 3, 4>>
PNG_acTL_CHUNK == <<0, 0, 0, 8, 97, 99, 84, 76, 0, 0, 0, 1, 0, 0, 0, 0, 9, 9, 9, 9>>
PNG_IDAT_CHUNK == <<0, 0, 0, 1, 73, 68, 65, 84, 0, 5, 6, 7, 8>>
PNG_IEND_CHUNK == <<0, 0, 0, 0, 73, 69, 78, 68, 174, 66, 96, 130>>
SAMPLE_jpeg ==
  <<255, 216, 255, 224, 0, 7, 74, 70, 73, 70, 0, 255, 192, 0, 11, 8, 0, 2, 0, 3, 1, 1, 17, 0, 255, 218, 0, 8, 1, 1, 0, 0, 63, 0, 18, 52, 255, 217>>
SAMPLE_gif ==
  <<71, 73, 70, 56, 57, 97, 3, 0, 2, 0, 0, 0, 0, 44, 0, 0, 0, 0, 3, 0, 2, 0, 0, 2, 2, 76, 1, 0, 59>>
SAMPLE_webp ==
  <<82, 73, 70, 70, 16, 0, 0, 0, 87, 69, 66, 80, 86, 80, 56, 32, 4, 0, 0, 0, 1, 2, 3, 4>>
SAMPLE_bmp ==
  <<66, 77, 30, 0, 0, 0, 0, 0, 0, 0, 26, 0, 0, 0, 12, 0, 0, 0, 1, 0, 0, 0, 255, 255, 255, 255, 255, 255, 255, 0>>
SAMPLE_ico ==
  <<0, 0, 1, 0, 1, 0, 1, 1, 0, 0, 1, 0, 32, 0, 4, 0, 0, 0, 22, 0, 0, 0, 1, 2, 3, 4>>
SAMPLE_tiff ==
  <<73, 73, 42, 0, 8, 0, 0, 0, 1, 0, 0, 1, 3, 0, 1, 0, 0, 0, 3, 0, 0, 0, 0, 0, 0, 0>>
SAMPLE_tiff_be ==
  <<77, 77, 0, 42, 0, 0, 0, 8, 0, 0, 0, 0, 0, 0>>
SAMPLE_jpeg2000 ==
  <<0, 0, 0, 12, 106, 80, 32, 32, 13, 10, 135, 10, 0, 0, 0, 22, 105, 104, 100, 114, 0, 0, 0, 2, 0, 0, 0, 3, 0, 1, 7, 7, 0, 0>>
SAMPLE_avif ==
  <<0, 0, 0, 16, 102, 116, 121, 112, 97, 118, 105, 102, 0, 0, 0, 0, 0, 0, 0, 8, 109, 101, 116, 97>>
SAMPLE_heic ==
  <<0, 0, 0, 16, 102, 116, 121, 112, 104, 101, 105, 99, 0, 0, 0, 0, 0, 0, 0, 8, 109, 101, 116, 97>>
SAMPLE_heix ==
  <<0, 0, 0, 16, 102, 116, 121, 112, 104, 101, 105, 120, 0, 0, 0, 0>>
SAMPLE_svg ==
  <<60, 115, 118, 103, 32, 120, 109, 108, 110, 115, 61, 34, 119, 51, 34, 62, 60, 47, 115, 118, 103, 62>>
SAMPLE_svg_upper ==
  <<60, 63, 120, 109, 108, 63, 62, 60, 83, 86, 71, 62, 60, 47, 83, 86, 71, 62>>
SAMPLE_text ==
  <<104, 101, 108, 108, 111, 44, 32, 119, 111, 114, 108, 100>>
SAMPLE_bm_svg ==
  <<66, 77, 32, 60, 115, 118, 103, 47, 62>>
SAMPLE_jpeg_svg ==
  <<255, 216, 60, 115, 118, 103, 62, 255, 217>>

(* PNG files: signature, IHDR, a body of acTL/IDAT chunks, IEND or no IEND *)
PngBodies ==
  { PNG_IDAT_CHUNK, PNG_acTL_CHUNK \o PNG_IDAT_CHUNK,
    PNG_IDAT_CHUNK \o PNG_acTL_CHUNK, PNG_acTL_CHUNK, <<>> }
PngFiles ==
  { PNG_SIG \o PNG_IHDR_CHUNK \o body \o tail :
      body \in PngBodies, tail \in {PNG_IEND_CHUNK, <<>>} }
(* a first chunk whose length field points far beyond the file *)
SAMPLE_png_bad_length ==
  PNG_SIG \o <<127, 255, 255, 255>> \o TYPE_IHDR \o PNG_acTL_CHUNK \o PNG_IEND_CHUNK

BaseFiles ==
  PngFiles \cup
  { SAMPLE_png_bad_length, SAMPLE_jpeg, SAMPLE_gif, SAMPLE_webp, SAMPLE_bmp,
    SAMPLE_ico, SAMPLE_tiff, SAMPLE_tiff_be, SAMPLE_jpeg2000, SAMPLE_avif,
    SAMPLE_heic, SAMPLE_heix, SAMPLE_svg, SAMPLE_svg_upper, SAMPLE_text,
    SAMPLE_bm_svg, SAMPLE_jpeg_svg, <<>> }

(* bounds of the model *)
MaxTrim    == 2
MaxSkew    == 1
SmallChunk == 7
MidChunk   == 24
BigChunk   == 128

DropLast(bytes, k) == SubSeq(bytes, 1, Len(bytes) - k)
FileBytes ==
  UNION { { DropLast(b, k) : k \in 0..Min(MaxTrim, Len(b)) } : b \in BaseFiles }

FileNames ==
  { <<"photo", e>> :
      e \in { "jpg", "jpeg", "jfif", "png", "gif", "webp", "svg", "bmp", "ico",
              "tif", "tiff", "jp2", "jpx", "avif", "heic", "heif", "apng", "txt" } }
  \cup { <<"Photo", "PNG">>, <<"photo", "png", "JPG">>, <<"photo">> }

ChunkSizes == {SmallChunk, MidChunk, BigChunk}

(***************************************************************************)
(* sfFileFormatAnalyzer.analyze                                            *)
(***************************************************************************)
VARIABLES
  file,               \* the File: name, size, stream content, chunk size
  onProgress,         \* TRUE when a progress callback was passed
  pc,                 \* idle, awaitRead, awaitCancel, resolved, rejected
  finalFileBytes,     \* the pre-allocated buffer
  bytesRead,
  firstChunk,         \* null or the first chunk
  detectedFormatInfo, \* null or [format, magicNumber]
  dimensions,
  extension,
  reads,              \* number of reader.read() calls issued
  cancelled,          \* reader.cancel() was called
  failure,            \* null, or what threw inside the try block
  received,           \* the chunks copied into the buffer, in order
  progress,           \* the onProgress calls made, in order
  calls,              \* how often each validator function was called
  invoked,            \* the format checkers getFormat invoked, in order
  verified,           \* null or the buffer handed to verifyStructure
  verdict,            \* null or the object the promise resolved with
  rejection           \* null or the message the promise rejected with

vars ==
  << file, onProgress, pc, finalFileBytes, bytesRead, firstChunk,
     detectedFormatInfo, dimensions, extension, reads, cancelled, failure,
     received, progress, calls, invoked, verified, verdict, rejection >>

MSG_NO_STREAM       == <<"the browser does not support file streaming">>
MSG_IO              == <<"an error occurred while reading the file">>
REASON_UNSUPPORTED  == <<"unsupported file format">>
REASON_UNIDENTIFIED == <<"format cannot be identified">>

(* String.prototype.toUpperCase on a format name *)
toUpperCase(format) ==
  CASE format = "png" -> "PNG"   [] format = "apng" -> "APNG"
    [] format = "jpeg" -> "JPEG" [] format = "gif" -> "GIF"
    [] format = "webp" -> "WEBP" [] format = "svg" -> "SVG"
    [] format = "bmp" -> "BMP"   [] format = "ico" -> "ICO"
    [] format = "tiff" -> "TIFF" [] format = "jpeg2000" -> "JPEG2000"
    [] format = "avif" -> "AVIF" [] format = "heic" -> "HEIC"
    [] OTHER -> format

mismatchReason(detectedFormat, ext) ==
  << "the actual format (", toUpperCase(detectedFormat), ") and the extension (.",
     ext, ") do not match" >>

(* validity from the structural check alone *)
finalIsValid_StructureOnly(extensionValid, structuralVerification) ==
  structuralVerification.isValid

finalIsValid(extensionValid, structuralVerification) ==
  extensionValid /\ structuralVerification.isValid

(* the structural reason first, the mismatch second *)
finalReason_StructureFirst(isValid, extensionValid, detectedFormat, ext, structuralVerification) ==
  IF ~isValid
  THEN IF ~structuralVerification.isValid
       THEN structuralVerification.reason
       ELSE Some(mismatchReason(detectedFormat, ext))
  ELSE Null

finalReason(isValid, extensionValid, detectedFormat, ext, structuralVerification) ==
  IF ~isValid
  THEN IF ~extensionValid
       THEN Some(mismatchReason(detectedFormat, ext))
       ELSE structuralVerification.reason
  ELSE Null

(* the verdict of the no-format path; it carries no isExtensionValid *)
unsupportedVerdict(ext, chunk) ==
  [ isValid |-> FALSE, isExtensionValid |-> Null, detectedFormat |-> Null,
    reason |-> Some(REASON_UNSUPPORTED), magicNumber |-> Null,
    extension |-> ext, firstChunk |-> chunk, dimensions |-> Null,
    structuralVerification |->
      [isValid |-> FALSE, reason |-> Some(REASON_UNIDENTIFIED)],
    structuralVerificationWarning |-> Null ]

buildVerdict(info, ext, chunk, dims, structuralVerification, extensionValid) ==
  [ isValid |-> finalIsValid(extensionValid, structuralVerification),
    isExtensionValid |-> Some(extensionValid),
    detectedFormat |-> Some(info.format),
    magicNumber |-> info.magicNumber, extension |-> ext,
    firstChunk |-> chunk, dimensions |-> dims,
    structuralVerification |-> structuralVerification,
    structuralVerificationWarning |-> Null,
    reason |-> finalReason(finalIsValid(extensionValid, structuralVerification),
                           extensionValid, info.format, ext, structuralVerification) ]

(* lines 119-152: the verdict of a file whose format was detected *)
detectedVerdict(info, ext, chunk, dims, buffer) ==
  buildVerdict(info, ext, chunk, dims,
               verifyStructure(info.format, buffer),
               isExtensionValid(Some(info.format), ext))

(* the code after the loop: the verdict the promise resolves with *)
Conclude(info, buffer, ext, chunk, dims, c) ==
  /\ pc' = "resolved"
  /\ IF IsNull(info)
     THEN /\ verdict' = Some(unsupportedVerdict(ext, chunk))
          /\ calls' = c
          /\ verified' = verified
     ELSE /\ verdict' = Some(detectedVerdict(Get(info), ext, chunk, dims, buffer))
          /\ calls' = [c EXCEPT !.verifyStructure = @ + 1,
                                !.isExtensionValid = @ + 1]
          /\ verified' = Some(buffer)

(* Uint8Array.prototype.set(value, offset) on a buffer it fits in *)
setBytes(buffer, value, offset) ==
  [ i \in 1..Len(buffer) |->
      IF i > offset /\ i <= offset + Len(value) THEN value[i - offset] ELSE buffer[i] ]

(* the loop condition, then the next read or the code after the loop *)
LoopOrConclude(newRead, info, buffer, ext, chunk, dims, c) ==
  IF newRead < file.size
  THEN /\ pc' = "awaitRead"
       /\ reads' = reads + 1
       /\ calls' = c
       /\ UNCHANGED << verified, verdict >>
  ELSE /\ reads' = reads
       /\ Conclude(info, buffer, ext, chunk, dims, c)

(* the stream was left open on an unrecognised first chunk *)
earlyExit_Never(info) == FALSE

(* line 81: no format from the first chunk *)
earlyExit(info) == IsNull(info)

(* detection repeated on every chunk *)
isFirstChunk_Always(chunk) == TRUE

(* line 69: no first chunk kept yet *)
isFirstChunk(chunk) == IsNull(chunk)

(* the fraction computed before the chunk is counted *)
reportProgress_Stale(log, newRead, value) ==
  IF onProgress
  THEN Append(log, [num |-> newRead - Len(value), den |-> file.size, chunkBytes |-> value])
  ELSE log

(* line 96: onProgress(bytesRead / file.size, value) *)
reportProgress(log, newRead, value) ==
  IF onProgress
  THEN Append(log, [num |-> newRead, den |-> file.size, chunkBytes |-> value])
  ELSE log

(* one call of a function of sfFileFormatValidator on its own               *)
VARIABLES
  call,               \* null or the pending call: its function and arguments
  returned            \* null or the value the call returned

callVars == << call, returned >>

(* sfMetadataAnalyzer.analyze and the scanner it routes the file to        *)
VARIABLES
  scanFormat,         \* the format argument of the dispatcher: null or a name
  scanBytes,          \* the content of the file handed to the scanner
  scanner,            \* "none" or the scanner the dispatcher called
  spc,                \* the scan's position: idle, reading, a loop, settled
  cursor,             \* the scanner's offset into the buffer (i)
  metadata,           \* the scanner's metadata list
  errors,             \* the scanner's errors list
  warnings,           \* the warnings collected
  foundKeys,          \* JPEG: the marker abbreviations found (allFoundKeys)
  ifdCount,           \* TIFF: the number of IFDs entered
  visited,            \* the cursor at the start of each loop iteration
  result              \* null or the ScanResult the promise resolved with

scanVars ==
  << scanFormat, scanBytes, scanner, spc, cursor, metadata, errors, warnings,
     foundKeys, ifdCount, visited, result >>

(* no validator call and no scan is under way *)
CallIdle == call = Null /\ returned = Null
ScanIdle ==
  /\ scanFormat = Null
  /\ scanBytes = <<>>
  /\ scanner = "none"
  /\ spc = "idle"
  /\ cursor = 0
  /\ metadata = <<>>
  /\ errors = <<>>
  /\ warnings = <<>>
  /\ foundKeys = {}
  /\ ifdCount = 0
  /\ visited = <<>>
  /\ result = Null

(* sfMetaScannerJpeg.extractExifData: the promise, its timer and the reader *)
VARIABLES
  reader,             \* what window.EXIF.getData does with this call
  readerTags,         \* null (no exifdata) or the tags the reader has found
  epc,                \* idle, then pending until the promise is settled
  resolved,           \* the flag `resolved` of the executor
  timerArmed,         \* the 2-second timer is set and was not cleared
  exifPromise,        \* null while pending, then how the promise settled
  resolveCalls,       \* the number of calls of resolve
  callbacks,          \* the number of times the reader has called back
  events,             \* the order of throw, callback and timer
  exifResult          \* null or what _analyzeJPEG_EXIF resolved with

exifVars ==
  << reader, readerTags, epc, resolved, timerArmed, exifPromise, resolveCalls,
     callbacks, events, exifResult >>

ExifIdle ==
  /\ reader = "never"
  /\ readerTags = Null
  /\ epc = "idle"
  /\ resolved = FALSE
  /\ timerArmed = FALSE
  /\ exifPromise = Null
  /\ resolveCalls = 0
  /\ callbacks = 0
  /\ events = <<>>
  /\ exifResult = Null

(* sfImageSanitizer: the controller's queue and the file it is analysing   *)
VARIABLES
  autoConvertFormat,  \* the option of the same name
  isAnalyzing,
  fileQueue,
  totalFiles,
  processedFiles,
  cpc,                \* idle, or the step of processFileQueue that is awaited
  analysisContext,    \* null or the context of the file being analysed
  finalStates,        \* what was shown for each file analysed since the reset
  accepted,           \* the number of files handleFiles took since the reset
  loops,              \* the number of processFileQueue calls that are running
  handled             \* the number of files given to handleFiles so far

ctlVars ==
  << autoConvertFormat, isAnalyzing, fileQueue, totalFiles, processedFiles, cpc,
     analysisContext, finalStates, accepted, loops, handled >>

CtlIdle ==
  /\ autoConvertFormat = TRUE
  /\ isAnalyzing = FALSE
  /\ fileQueue = <<>>
  /\ totalFiles = 0
  /\ processedFiles = 0
  /\ cpc = "idle"
  /\ analysisContext = Null
  /\ finalStates = <<>>
  /\ accepted = 0
  /\ loops = 0
  /\ handled = 0

NoCalls ==
  [getFormat |-> 0, getDimensions |-> 0, verifyStructure |-> 0, isExtensionValid |-> 0]

Init ==
  /\ \E n \in FileNames, b \in FileBytes, skew \in (0 - MaxSkew)..MaxSkew,
        c \in ChunkSizes, s \in BOOLEAN, p \in BOOLEAN :
        /\ Len(b) + skew >= 0
        \* one call without file.stream per file, and the calls without a
        \* callback on files of the declared size
        /\ ~s => skew = 0 /\ c = BigChunk /\ p
        /\ ~p => skew = 0
        /\ file = [ name |-> n, bytes |-> b, size |-> Len(b) + skew,
                    chunkSize |-> c, hasStream |-> s ]
        /\ onProgress = p
  /\ pc = "idle"
  /\ finalFileBytes = <<>>
  /\ bytesRead = 0
  /\ firstChunk = Null
  /\ detectedFormatInfo = Null
  /\ dimensions = Null
  /\ extension = ""
  /\ reads = 0
  /\ cancelled = FALSE
  /\ failure = Null
  /\ received = <<>>
  /\ progress = <<>>
  /\ calls = NoCalls
  /\ invoked = <<>>
  /\ verified = Null
  /\ verdict = Null
  /\ rejection = Null
  /\ CallIdle
  /\ ScanIdle
  /\ ExifIdle
  /\ CtlIdle

(* analyze is called: lines 38-62, up to the first await *)
Analyze ==
  /\ pc = "idle"
  /\ IF ~file.hasStream
     THEN /\ pc' = "rejected"
          /\ rejection' = Some(MSG_NO_STREAM)
          /\ UNCHANGED << finalFileBytes, extension, reads, calls, verified, verdict >>
     ELSE /\ finalFileBytes' = [i \in 1..file.size |-> 0]
          /\ extension' = getExtension(file.name)
          /\ rejection' = rejection
          /\ LoopOrConclude(0, Null, finalFileBytes', extension', Null, Null, calls)
  /\ UNCHANGED << file, onProgress, bytesRead, firstChunk, detectedFormatInfo,
                  dimensions, cancelled, failure, received, progress, invoked >>
  /\ UNCHANGED << callVars, scanVars, exifVars, ctlVars >>

(* the first chunk: lines 69-94 and what follows in the loop body *)
FirstChunk(value, newRead, run, c1) ==
  /\ firstChunk' = Some(value)
  /\ detectedFormatInfo' = run.result
  /\ invoked' = invoked \o run.invoked
  /\ IF earlyExit(run.result)
     THEN \* await reader.cancel()
          /\ cancelled' = TRUE
          /\ pc' = "awaitCancel"
          /\ calls' = c1
          /\ UNCHANGED << dimensions, reads, progress, verified, verdict >>
     ELSE /\ dimensions' = IF IsNull(run.result) THEN Null
                           ELSE getDimensions(Get(run.result).format, value)
          /\ progress' = reportProgress(progress, newRead, value)
          /\ cancelled' = cancelled
          /\ LoopOrConclude(newRead, run.result, finalFileBytes', extension,
                            Some(value), dimensions',
                            [c1 EXCEPT !.getDimensions = @ + 1])

(* a later chunk: lines 96-98 *)
LaterChunk(value, newRead) ==
  /\ progress' = reportProgress(progress, newRead, value)
  /\ UNCHANGED << firstChunk, detectedFormatInfo, dimensions, cancelled, invoked >>
  /\ LoopOrConclude(newRead, detectedFormatInfo, finalFileBytes', extension,
                    firstChunk, dimensions, calls)

(* reader.read() resolves with a chunk: lines 62-99, then the loop test *)
ReadChunk ==
  /\ pc = "awaitRead"
  /\ bytesRead < Len(file.bytes)
  /\ \E value \in {slice(file.bytes, bytesRead, bytesRead + file.chunkSize)} :
       IF bytesRead + Len(value) > file.size
       THEN \* finalFileBytes.set throws RangeError: the catch block
            /\ pc' = "rejected"
            /\ rejection' = Some(MSG_IO)
            /\ failure' = Some("set")
            /\ UNCHANGED << finalFileBytes, bytesRead, firstChunk, detectedFormatInfo,
                            dimensions, reads, cancelled, received, progress, calls,
                            invoked, verified, verdict >>
       ELSE /\ finalFileBytes' = setBytes(finalFileBytes, value, bytesRead)
            /\ bytesRead' = bytesRead + Len(value)
            /\ received' = Append(received, value)
            /\ UNCHANGED << rejection, failure >>
            /\ IF isFirstChunk(firstChunk)
               THEN \E run \in {getFormatRun(value, extension)} :
                      FirstChunk(value, bytesRead + Len(value), run,
                                 [calls EXCEPT !.getFormat = @ + 1])
               ELSE LaterChunk(value, bytesRead + Len(value))
  /\ UNCHANGED << file, onProgress, extension >>
  /\ UNCHANGED << callVars, scanVars, exifVars, ctlVars >>

(* reader.read() resolves with done = true: the stream ended before        *)
(* file.size bytes were read (line 63)                                     *)
ReadDone ==
  /\ pc = "awaitRead"
  /\ ~(bytesRead < Len(file.bytes))
  /\ reads' = reads
  /\ Conclude(detectedFormatInfo, finalFileBytes, extension, firstChunk, dimensions, calls)
  /\ UNCHANGED << file, onProgress, finalFileBytes, bytesRead, firstChunk,
                  detectedFormatInfo, dimensions, extension, cancelled, failure,
                  received, progress, invoked, rejection >>
  /\ UNCHANGED << callVars, scanVars, exifVars, ctlVars >>

(* the rejection swallowed: the promise resolves with what is known so far *)
ReadRejects_Resolves ==
  /\ pc = "awaitRead"
  /\ failure' = Some("read")
  /\ reads' = reads
  /\ Conclude(detectedFormatInfo, finalFileBytes, extension, firstChunk, dimensions, calls)
  /\ UNCHANGED << file, onProgress, finalFileBytes, bytesRead, firstChunk,
                  detectedFormatInfo, dimensions, extension, cancelled,
                  received, progress, invoked, rejection >>
  /\ UNCHANGED << callVars, scanVars, exifVars, ctlVars >>

(* reader.read() rejects: the catch block, lines 153-156 *)
ReadRejects ==
  /\ pc = "awaitRead"
  /\ pc' = "rejected"
  /\ failure' = Some("read")
  /\ rejection' = Some(MSG_IO)
  /\ UNCHANGED << file, onProgress, finalFileBytes, bytesRead, firstChunk,
                  detectedFormatInfo, dimensions, extension, reads, cancelled,
                  received, progress, calls, invoked, verified, verdict >>
  /\ UNCHANGED << callVars, scanVars, exifVars, ctlVars >>

(* reader.cancel() resolves: break, then the code after the loop *)
CancelDone ==
  /\ pc = "awaitCancel"
  /\ reads' = reads
  /\ Conclude(detectedFormatInfo, finalFileBytes, extension, firstChunk, dimensions, calls)
  /\ UNCHANGED << file, onProgress, finalFileBytes, bytesRead, firstChunk,
                  detectedFormatInfo, dimensions, extension, cancelled, failure,
                  received, progress, invoked, rejection >>
  /\ UNCHANGED << callVars, scanVars, exifVars, ctlVars >>

Next ==
  \/ Analyze
  \/ ReadChunk
  \/ ReadDone
  \/ ReadRejects
  \/ CancelDone

Spec == Init /\ [][Next]_vars

(***************************************************************************)
(* Properties of analyze                                                   *)
(***************************************************************************)
Resolved == pc = "resolved" /\ ~IsNull(verdict)
Verdict  == Get(verdict)
(* a JavaScript value used as a condition *)
Truthy(v) == v = Some(TRUE)
(* the first chunk was received and no signature matched it *)
NoFormatSeen == ~IsNull(firstChunk) /\ IsNull(detectedFormatInfo)

C2_State ==
  NoFormatSeen =>
    /\ cancelled
    /\ reads = 1
    /\ pc \in {"awaitCancel", "resolved"}
    /\ IsNull(rejection)
    /\ calls.verifyStructure = 0 /\ calls.isExtensionValid = 0
    /\ pc = "resolved" =>
         /\ ~IsNull(verdict)
         /\ IsNull(Verdict.detectedFormat)
         /\ ~Verdict.isValid
C2_Step ==
  cancelled => /\ reads' = reads
               /\ pc' \in {pc, "resolved"}
C2_EarlyExit == []C2_State /\ [][C2_Step]_vars

(* an unrecognised first chunk of a longer file, the rest never read *)
C2_Witness ==
  /\ NoFormatSeen
  /\ Resolved
  /\ cancelled
  /\ bytesRead < file.size
  /\ bytesRead < Len(file.bytes)

(* C3 as claimed: whenever isValid is false the reason is the mismatch     *)
(* message if isExtensionValid is false and structuralVerification.reason  *)
(* otherwise; when isValid is true the reason is null                      *)
C3_ReasonPrecedence_AsClaimed ==
  ~IsNull(verdict) =>
    IF Verdict.isValid
    THEN IsNull(Verdict.reason)
    ELSE /\ ~IsNull(Verdict.reason)
         /\ IF Verdict.isExtensionValid = Some(FALSE)
            THEN /\ ~IsNull(Verdict.detectedFormat)
                 /\ Verdict.reason =
                      Some(<< "the actual format (",
                              toUpperCase(Get(Verdict.detectedFormat)),
                              ") and the extension (.", Verdict.extension,
                              ") do not match" >>)
            ELSE Verdict.reason = Verdict.structuralVerification.reason

(* C3 (amended): the precedence holds for the verdicts of a detected       *)
(* format; the verdict of the no-format path carries the fixed             *)
(* unsupported-format reason, which is neither of the two                  *)
C3_ReasonPrecedence ==
  ~IsNull(verdict) =>
    IF IsNull(Verdict.detectedFormat)
    THEN /\ ~Verdict.isValid
         /\ Verdict.reason = Some(REASON_UNSUPPORTED)
    ELSE IF Verdict.isValid
    THEN IsNull(Verdict.reason)
    ELSE /\ ~IsNull(Verdict.reason)
         /\ IF Verdict.isExtensionValid = Some(FALSE)
            THEN Verdict.reason =
                   Some(<< "the actual format (",
                           toUpperCase(Get(Verdict.detectedFormat)),
                           ") and the extension (.", Verdict.extension,
                           ") do not match" >>)
            ELSE Verdict.reason = Verdict.structuralVerification.reason

(* a wrong extension on a file that is also structurally broken: the       *)
(* mismatch is the reason reported *)
C3_Witness ==
  /\ Resolved
  /\ ~IsNull(Verdict.detectedFormat)
  /\ Verdict.isExtensionValid = Some(FALSE)
  /\ ~Verdict.structuralVerification.isValid
  /\ Verdict.reason # Verdict.structuralVerification.reason

(* C4: once a read() rejected or the copy of a chunk threw, the promise is *)
(* rejected with the generic I/O message and holds no verdict, however     *)
(* many chunks came before                                                  *)
C4_FailureRejects ==
  ~IsNull(failure) =>
    /\ pc = "rejected"
    /\ rejection = Some(MSG_IO)
    /\ IsNull(verdict)

(* a read rejected after two chunks were already processed *)
C4_Witness ==
  /\ failure = Some("read")
  /\ Len(received) >= 2
  /\ ~IsNull(detectedFormatInfo)
  /\ pc = "rejected"

(* the number of bytes in the first k chunks received *)
RECURSIVE BytesIn(_, _)
BytesIn(chunks, k) == IF k = 0 THEN 0 ELSE BytesIn(chunks, k - 1) + Len(chunks[k])

(* onProgress was called once for each of the given chunks, in order, with *)
(* the cumulative fraction and the chunk's bytes, the fractions never      *)
(* decreasing                                                               *)
ProgressCovers(chunks) ==
  /\ Len(progress) = Len(chunks)
  /\ \A k \in 1..Len(chunks) :
       /\ progress[k].chunkBytes = chunks[k]
       /\ progress[k].num = BytesIn(received, k)
       /\ progress[k].den = file.size
  /\ \A k \in 1..(Len(progress) - 1) :
       progress[k].num * progress[k + 1].den <= progress[k + 1].num * progress[k].den

(* C5 as claimed: every chunk received is reported once to onProgress      *)
C5_ProgressPerChunk_AsClaimed ==
  onProgress => ProgressCovers(received)

(* C5 (amended): every chunk received is reported once to onProgress with  *)
(* fraction = bytes read so far / file.size and the chunk's bytes, the     *)
(* fractions non-decreasing, except a first chunk that matches no          *)
(* signature: the loop is left before the callback and it is not reported  *)
C5_ProgressPerChunk ==
  onProgress => ProgressCovers(IF NoFormatSeen THEN <<>> ELSE received)

(* three chunks reported, the last fraction being 1 *)
C5_Witness ==
  /\ onProgress
  /\ Resolved
  /\ Len(received) >= 3
  /\ Len(progress) = Len(received)
  /\ progress[Len(progress)].num = file.size

(* C6: getFormat and getDimensions run at most once, on the first chunk    *)
(* and before a second read() is issued; the detected format never changes *)
(* afterwards; verifyStructure runs once, after the loop, on the whole     *)
(* pre-allocated buffer                                                     *)
C6_State ==
  /\ calls.getFormat <= 1 /\ calls.getDimensions <= 1 /\ calls.verifyStructure <= 1
  /\ calls.getFormat = (IF IsNull(firstChunk) THEN 0 ELSE 1)
  /\ calls.getDimensions = (IF IsNull(detectedFormatInfo) THEN 0 ELSE 1)
  /\ ~IsNull(firstChunk) => firstChunk = Some(received[1])
  /\ calls.verifyStructure > 0 =>
       /\ pc = "resolved"
       /\ verified = Some(finalFileBytes)
       /\ Len(finalFileBytes) = file.size
       /\ SubSeq(finalFileBytes, 1, bytesRead) = SubSeq(file.bytes, 1, bytesRead)
  /\ (pc = "resolved" /\ ~IsNull(detectedFormatInfo)) => calls.verifyStructure = 1
C6_Step ==
  /\ calls'.getFormat # calls.getFormat => reads = 1 /\ received = <<>>
  /\ calls'.getDimensions # calls.getDimensions => reads = 1 /\ received = <<>>
  /\ ~IsNull(firstChunk) => /\ detectedFormatInfo' = detectedFormatInfo
                            /\ dimensions' = dimensions
                            /\ firstChunk' = firstChunk
  /\ calls'.verifyStructure # calls.verifyStructure =>
       pc \in {"awaitRead", "awaitCancel"} /\ pc' = "resolved"
C6_DetectOnceVerifyLast == []C6_State /\ [][C6_Step]_vars

(* a file read in three chunks or more: one detection, one verification *)
C6_Witness ==
  /\ Resolved
  /\ Len(received) >= 3
  /\ calls.getFormat = 1 /\ calls.getDimensions = 1 /\ calls.verifyStructure = 1

(***************************************************************************)
(* The rules of the specification, stated on the bytes                     *)
(***************************************************************************)
HasBytes(bytes, sig, off) ==
  /\ off >= 0
  /\ Len(bytes) >= off + Len(sig)
  /\ SubSeq(bytes, off + 1, off + Len(sig)) = sig

(* the offsets at which the chunks of a PNG start: length(4) type(4) data  *)
(* CRC(4), from offset 8, as far as a chunk header fits in the buffer      *)
RECURSIVE ChunkStarts(_, _)
ChunkStarts(bytes, o) ==
  IF o + 8 > Len(bytes) THEN {}
  ELSE {o} \cup ChunkStarts(bytes, o + 4 + 4 + getUint32BE(bytes, o) + 4)

AcTLBeforeIDAT(bytes) ==
  \E o \in ChunkStarts(bytes, 8) :
    /\ HasBytes(bytes, TYPE_acTL, o + 4)
    /\ \A q \in ChunkStarts(bytes, 8) : q < o => ~HasBytes(bytes, TYPE_IDAT, q + 4)

SignatureRule(format, bytes) ==
  CASE format = "png"  -> HasBytes(bytes, PNG_SIG, 0)
    [] format = "apng" -> HasBytes(bytes, PNG_SIG, 0) /\ AcTLBeforeIDAT(bytes)
    [] format = "jpeg" -> HasBytes(bytes, <<255, 216>>, 0)
    [] format = "gif"  -> HasBytes(bytes, <<71, 73, 70, 56>>, 0)
    [] format = "webp" -> HasBytes(bytes, RIFF, 0) /\ HasBytes(bytes, WEBP, 8)
    [] format = "svg"  ->
         \E k \in 1..(Min(Len(bytes), 256) - 3) :
           /\ bytes[k] = 60
           /\ bytes[k + 1] \in {115, 83}
           /\ bytes[k + 2] \in {118, 86}
           /\ bytes[k + 3] \in {103, 71}
    [] format = "bmp"  -> HasBytes(bytes, <<66, 77>>, 0)
    [] format = "ico"  -> HasBytes(bytes, <<0, 0, 1, 0>>, 0)
    [] format = "tiff" -> HasBytes(bytes, <<73, 73, 42, 0>>, 0)
                            \/ HasBytes(bytes, <<77, 77, 0, 42>>, 0)
    [] format = "jpeg2000" -> HasBytes(bytes, JP2_SIG, 0)
    [] format = "avif" -> HasBytes(bytes, FTYP \o BRAND_avif, 4)
    [] format = "heic" -> \E brand \in HEIC_BRANDS : HasBytes(bytes, FTYP \o brand, 4)
    [] OTHER -> FALSE

(* the container ends as it should: a PNG with an IEND chunk (length 0),   *)
(* a JPEG with EOI, a GIF with its trailer                                  *)
TerminatesCorrectly(format, bytes) ==
  CASE format = "png"  -> HasBytes(bytes, <<0, 0, 0, 0>> \o TYPE_IEND, Len(bytes) - 12)
    [] format = "jpeg" -> HasBytes(bytes, <<255, 217>>, Len(bytes) - 2)
    [] format = "gif"  -> HasBytes(bytes, <<59>>, Len(bytes) - 1)
    [] OTHER -> TRUE

(* the extensions of the rule table that map to a format *)
ExtensionsOf(format) ==
  CASE format = "jpeg" -> {"jpg", "jpeg", "jfif"}
    [] format = "png"  -> {"png"}
    [] format = "apng" -> {"png"}
    [] format = "gif"  -> {"gif"}
    [] format = "webp" -> {"webp"}
    [] format = "svg"  -> {"svg"}
    [] format = "bmp"  -> {"bmp"}
    [] format = "ico"  -> {"ico"}
    [] format = "tiff" -> {"tif", "tiff"}
    [] format = "jpeg2000" -> {"jp2", "jpx"}
    [] format = "avif" -> {"avif"}
    [] format = "heic" -> {"heic", "heif"}
    [] OTHER -> {}

SupportedFormats ==
  { "png", "jpeg", "gif", "webp", "svg", "bmp", "ico", "tiff", "jpeg2000",
    "avif", "heic" }

(* the whole file was streamed into a buffer of its size *)
WholeFileRead ==
  Resolved /\ file.size = Len(file.bytes) /\ finalFileBytes = file.bytes

(* C7 as claimed: a file with the signature of one of the 11 formats, a    *)
(* correct end and an extension of that format is valid and detected as    *)
(* that format                                                              *)
C7_WellFormedValid_AsClaimed ==
  \A f \in SupportedFormats :
    ( /\ WholeFileRead
      /\ SignatureRule(f, file.bytes)
      /\ TerminatesCorrectly(f, file.bytes)
      /\ Verdict.extension \in ExtensionsOf(f) )
    => /\ Verdict.detectedFormat = Some(f)
       /\ Verdict.isExtensionValid = Some(TRUE)
       /\ Verdict.isValid

(* C7 (amended): the signature rule is the first chunk's to satisfy (it is *)
(* all that detection reads), and a png whose first chunk has acTL before  *)
(* IDAT is detected as apng; the verdict is valid in both cases            *)
C7_WellFormedValid ==
  \A f \in SupportedFormats :
    ( /\ WholeFileRead
      /\ received # <<>>
      /\ SignatureRule(f, received[1])
      /\ TerminatesCorrectly(f, file.bytes)
      /\ Verdict.extension \in ExtensionsOf(f) )
    => /\ Verdict.detectedFormat =
            Some(IF f = "png" /\ AcTLBeforeIDAT(received[1]) THEN "apng" ELSE f)
       /\ Verdict.isExtensionValid = Some(TRUE)
       /\ Verdict.isValid

(* a plain PNG ending in IEND, named .png and read in several chunks *)
C7_Witness ==
  /\ WholeFileRead
  /\ Len(received) >= 2
  /\ SignatureRule("png", received[1])
  /\ TerminatesCorrectly("png", file.bytes)
  /\ Verdict.extension = "png"
  /\ Verdict.detectedFormat = Some("png")
  /\ Verdict.isValid

(* the formats whose extensions include the given one: the primary         *)
(* candidates of the extension                                              *)
PrimaryCandidates(ext) == { f \in Range(allFormats) : ext \in ExtensionsOf(f) }

(* getFormat has run: on the first chunk, under the file's extension *)
Detected == received # <<>>
DetectedFormat ==
  IF IsNull(detectedFormatInfo) THEN "none" ELSE Get(detectedFormatInfo).format

(* C8: bytes that begin with FF D8 under an extension none of whose        *)
(* primary candidates matches them (png, an unknown extension, ...) are    *)
(* still detected as jpeg, by the second pass, and the verdict has         *)
(* isExtensionValid = false and isValid = false                             *)
C8_JpegByFallback ==
  ( /\ Detected
    /\ HasBytes(received[1], <<255, 216>>, 0)
    /\ \A f \in PrimaryCandidates(extension) : ~SignatureRule(f, received[1]) )
  => /\ DetectedFormat = "jpeg"
     /\ Len(invoked) > Cardinality(PrimaryCandidates(extension))
     /\ invoked[Len(invoked)] = "jpeg"
     /\ Resolved =>
          /\ Verdict.detectedFormat = Some("jpeg")
          /\ Verdict.isExtensionValid = Some(FALSE)
          /\ ~Verdict.isValid

(* a complete JPEG named .png: detected in the second pass, invalid *)
C8_Witness ==
  /\ WholeFileRead
  /\ extension = "png"
  /\ file.bytes = SAMPLE_jpeg
  /\ invoked = <<"apng", "png", "jpeg">>
  /\ Verdict.detectedFormat = Some("jpeg")
  /\ Verdict.structuralVerification.isValid
  /\ ~Verdict.isValid

(* C9 as claimed: when a primary candidate of the extension matches the    *)
(* bytes, getFormat invokes exactly one checker                             *)
C9_OneChecker_AsClaimed ==
  ( /\ Detected
    /\ \E f \in PrimaryCandidates(extension) : SignatureRule(f, received[1]) )
  => Len(invoked) = 1

(* C9 (amended): exactly one checker is invoked, except under .png for a   *)
(* PNG without acTL before IDAT, where two are: apng, which fails, then    *)
(* png                                                                      *)
C9_OneChecker ==
  ( /\ Detected
    /\ \E f \in PrimaryCandidates(extension) : SignatureRule(f, received[1]) )
  => IF extension = "png" /\ ~AcTLBeforeIDAT(received[1])
     THEN invoked = <<"apng", "png">> /\ DetectedFormat = "png"
     ELSE Len(invoked) = 1 /\ invoked[1] = DetectedFormat

(* a plain PNG under .png: two checkers *)
C9_Witness ==
  /\ Resolved
  /\ Detected
  /\ extension = "png"
  /\ SignatureRule("png", received[1])
  /\ ~AcTLBeforeIDAT(received[1])
  /\ invoked = <<"apng", "png">>

(* C10: under extension png, getFormat returns apng exactly when the PNG   *)
(* signature matches and the chunk walk from offset 8 meets acTL before    *)
(* IDAT; with the signature but IDAT first, or the walk out of bytes, it   *)
(* returns png; a verdict of apng under .png has isExtensionValid = true   *)
C10_ApngUnderPng ==
  ( Detected /\ extension = "png" )
  => /\ DetectedFormat = "apng" <=>
          (HasBytes(received[1], PNG_SIG, 0) /\ AcTLBeforeIDAT(received[1]))
     /\ (HasBytes(received[1], PNG_SIG, 0) /\ ~AcTLBeforeIDAT(received[1]))
          => DetectedFormat = "png"
     /\ (Resolved /\ DetectedFormat = "apng")
          => /\ Verdict.detectedFormat = Some("apng")
             /\ Verdict.isExtensionValid = Some(TRUE)

(* an APNG named .png, its acTL chunk inside the first chunk read *)
C10_Witness ==
  /\ Resolved
  /\ Detected
  /\ extension = "png"
  /\ AcTLBeforeIDAT(received[1])
  /\ Verdict.detectedFormat = Some("apng")
  /\ Verdict.isExtensionValid = Some(TRUE)
  /\ Verdict.isValid

(* C11: APNG bytes (PNG signature, acTL before any IDAT, all inside the    *)
(* first chunk) analysed under extension apng give a verdict with          *)
(* isExtensionValid = true, as they do under png                            *)
C11_ApngUnderApng ==
  ( /\ Resolved
    /\ Detected
    /\ extension = "apng"
    /\ HasBytes(received[1], PNG_SIG, 0)
    /\ AcTLBeforeIDAT(received[1]) )
  => Verdict.isExtensionValid = Some(TRUE)

(* what the code does with them: apng has no primary candidates, the       *)
(* second pass tries png before apng, png matches, and (png, apng) is       *)
(* rejected                                                                 *)
C11_Witness ==
  /\ Resolved
  /\ Detected
  /\ extension = "apng"
  /\ HasBytes(received[1], PNG_SIG, 0)
  /\ AcTLBeforeIDAT(received[1])
  /\ invoked = <<"png">>
  /\ Verdict.detectedFormat = Some("png")
  /\ Verdict.isExtensionValid = Some(FALSE)
  /\ ~Verdict.isValid

(* C13: for a supported format whose container has a terminator (PNG: the  *)
(* IEND chunk, JPEG: the final EOI, GIF: the trailer), a file of that      *)
(* format from which the terminator was removed gets a structural          *)
(* verification with isValid = false and a reason that names the           *)
(* terminator                                                               *)
C13_TerminatorRequired ==
  \A f \in {"png", "jpeg", "gif"} :
    ( /\ WholeFileRead
      /\ Verdict.detectedFormat = Some(f)
      /\ ~TerminatesCorrectly(f, file.bytes) )
    => /\ ~Verdict.structuralVerification.isValid
       /\ Verdict.structuralVerification.reason
            \in {Some(REASON_PNG_IEND), Some(REASON_JPEG_EOI)}

(* the sample GIF without its trailer byte, named .gif: verifyStructure    *)
(* has no case for gif and the verdict is valid                             *)
C13_Witness ==
  /\ WholeFileRead
  /\ file.bytes = DropLast(SAMPLE_gif, 1)
  /\ Verdict.extension = "gif"
  /\ Verdict.detectedFormat = Some("gif")
  /\ Verdict.structuralVerification = [isValid |-> TRUE, reason |-> Null]
  /\ Verdict.isValid

(***************************************************************************)
(* Calls of the validator's functions on their own                         *)
(***************************************************************************)
(* no analysis is under way *)
AnalyzeIdle ==
  /\ file = [ name |-> <<"">>, bytes |-> <<>>, size |-> 0,
              chunkSize |-> BigChunk, hasStream |-> FALSE ]
  /\ onProgress = FALSE
  /\ pc = "idle"
  /\ finalFileBytes = <<>>
  /\ bytesRead = 0
  /\ firstChunk = Null
  /\ detectedFormatInfo = Null
  /\ dimensions = Null
  /\ extension = ""
  /\ reads = 0
  /\ cancelled = FALSE
  /\ failure = Null
  /\ received = <<>>
  /\ progress = <<>>
  /\ calls = NoCalls
  /\ invoked = <<>>
  /\ verified = Null
  /\ verdict = Null
  /\ rejection = Null

(* the detected formats a caller may pass: none, each format name, the     *)
(* empty string and names no checker has                                    *)
DetectedFormatArgs ==
  {Null} \cup { Some(f) : f \in Range(allFormats) \cup {"", "xyz", "PNG"} }

(* the extensions a caller may pass: those of the file names, the empty    *)
(* string and an upper-case one                                             *)
ExtensionArgs ==
  { getExtension(n) : n \in FileNames } \cup {"", "PNG"}

CallInit ==
  /\ call \in { Some([fn |-> "isExtensionValid", detectedFormat |-> d, extension |-> e]) :
                  d \in DetectedFormatArgs, e \in ExtensionArgs }
  /\ returned = Null
  /\ AnalyzeIdle
  /\ ScanIdle
  /\ ExifIdle
  /\ CtlIdle

(* sfFileFormatValidator.isExtensionValid(detectedFormat, extension) *)
CallIsExtensionValid ==
  /\ ~IsNull(call)
  /\ IsNull(returned)
  /\ Get(call).fn = "isExtensionValid"
  /\ returned' = Some(isExtensionValid(Get(call).detectedFormat, Get(call).extension))
  /\ UNCHANGED << call, vars, scanVars, exifVars, ctlVars >>

CallNext == CallIsExtensionValid

CallSpec == CallInit /\ [][CallNext]_callVars

(* C12: isExtensionValid(detectedFormat, extension) is true exactly when   *)
(* detectedFormat is one of the formats the rule table accepts for the     *)
(* extension (png accepts apng and png); (apng, png) is true, (png, apng)  *)
(* is false, and no detected format or an unknown one is false for every   *)
(* extension                                                                *)
C12_RuleTable ==
  ( ~IsNull(call) /\ ~IsNull(returned) /\ Get(call).fn = "isExtensionValid" )
  => /\ Get(returned) =
          ( /\ ~IsNull(Get(call).detectedFormat)
            /\ Get(Get(call).detectedFormat) \in PrimaryCandidates(Get(call).extension) )
     /\ (Get(call).detectedFormat = Some("apng") /\ Get(call).extension = "png")
          => Get(returned) = TRUE
     /\ (Get(call).detectedFormat = Some("png") /\ Get(call).extension = "apng")
          => Get(returned) = FALSE
     /\ Get(call).detectedFormat \in {Null, Some(""), Some("xyz"), Some("PNG")}
          => Get(returned) = FALSE

(* the call (apng, png) has returned true *)
C12_Witness ==
  /\ call = Some([fn |-> "isExtensionValid", detectedFormat |-> Some("apng"),
                  extension |-> "png"])
  /\ returned = Some(TRUE)

(***************************************************************************)
(* The metadata scanners and their dispatcher                              *)
(***************************************************************************)
(* DataView.getUint32(o, true); values of 2^30 or more are kept as 2^30,   *)
(* as in getUint32BE                                                        *)
getUint32LE(bytes, o) ==
  IF At(bytes, o + 3) >= 64 THEN 1073741824
  ELSE At(bytes, o) + At(bytes, o + 1) * 256 + At(bytes, o + 2) * 65536
         + At(bytes, o + 3) * 16777216

(* new TextDecoder().decode(bytes) as a sequence of code points: an ASCII  *)
(* byte is itself, a byte of 128 or more that begins no valid UTF-8        *)
(* sequence (the buffers of the model hold none) is U+FFFD                  *)
decode(bytes) == [k \in 1..Len(bytes) |-> IF bytes[k] < 128 THEN bytes[k] ELSE 65533]

(* a text with one interpolated value: the source's Korean texts are kept  *)
(* as an English text and the interpolated value as a sequence of numbers  *)
Msg(text, arg) == [text |-> text, arg |-> arg]

(* a metadata item { key, value }; offset, length, details and isMissing   *)
(* are set by the JPEG scanner only                                         *)
Item(key, value) ==
  [ key |-> key, value |-> value, offset |-> Null, length |-> Null,
    details |-> Null, isMissing |-> FALSE ]

(* a ScanResult: warnings and reason are absent from most results *)
ScanResult(errs, meta, skipped) ==
  [ errors |-> errs, warnings |-> Null, metadata |-> meta, skipped |-> skipped,
    reason |-> Null ]

MSG_READ_ERROR == Msg("error while reading the file", <<>>)

(* the scan promise resolves with { errors, metadata, skipped } *)
Settle(errs, meta, skipped) ==
  /\ errors' = errs
  /\ metadata' = meta
  /\ result' = Some(ScanResult(errs, meta, skipped))
  /\ spc' = "resolved"

(* the loop goes on at offset next if test holds, else the promise         *)
(* resolves                                                                 *)
LoopOrSettle(test, errs, meta, next) ==
  /\ cursor' = next
  /\ IF test
     THEN /\ errors' = errs
          /\ metadata' = meta
          /\ spc' = "loop"
          /\ result' = result
     ELSE Settle(errs, meta, FALSE)

(* an exception thrown inside reader.onload or reader.onerror: nothing     *)
(* catches it and the promise of scan is never settled                      *)
Uncaught(errs, meta) ==
  /\ errors' = errs
  /\ metadata' = meta
  /\ spc' = "uncaught"
  /\ result' = result

(* ---- sfMetadataAnalyzer.analyze: the dispatcher ------------------------ *)
REASON_NOT_SUPPORTED == "metadata analysis is not supported for this format"

(* a dispatcher without the case "apng" *)
scannerOf_NoApng(fmt) ==
  CASE fmt = Some("jpeg") -> "Jpeg"
    [] fmt = Some("png") -> "Png"
    [] fmt = Some("gif") -> "Gif"
    [] fmt = Some("svg") -> "Svg"
    [] fmt = Some("webp") -> "Webp"
    [] fmt = Some("tiff") -> "Tiff"
    [] fmt = Some("bmp") -> "Bmp"
    [] fmt = Some("ico") -> "Ico"
    [] fmt = Some("avif") -> "Avif"
    [] fmt = Some("heic") -> "Heic"
    [] fmt = Some("jpeg2000") -> "Jp2"
    [] OTHER -> "none"

(* the scanner each case of the switch calls *)
scannerOf(fmt) ==
  CASE fmt = Some("jpeg") -> "Jpeg"
    [] fmt \in {Some("png"), Some("apng")} -> "Png"
    [] fmt = Some("gif") -> "Gif"
    [] fmt = Some("svg") -> "Svg"
    [] fmt = Some("webp") -> "Webp"
    [] fmt = Some("tiff") -> "Tiff"
    [] fmt = Some("bmp") -> "Bmp"
    [] fmt = Some("ico") -> "Ico"
    [] fmt = Some("avif") -> "Avif"
    [] fmt = Some("heic") -> "Heic"
    [] fmt = Some("jpeg2000") -> "Jp2"
    [] OTHER -> "none"

(* the result of the default case; format || "unknown" in the reason *)
skippedResult(fmt) ==
  [ errors |-> <<>>, warnings |-> Some(<<>>), metadata |-> <<>>, skipped |-> TRUE,
    reason |-> Some(<< REASON_NOT_SUPPORTED,
                       IF IsNull(fmt) \/ fmt = Some("") THEN "unknown" ELSE Get(fmt) >>) ]

(* analyze(file, format, logger): a scanner is called, which starts        *)
(* reading the file, or the default result is returned                      *)
Dispatch ==
  /\ spc = "idle"
  /\ scanner' = scannerOf(scanFormat)
  /\ IF scanner' = "none"
     THEN /\ result' = Some(skippedResult(scanFormat))
          /\ spc' = "resolved"
     ELSE /\ result' = result
          /\ spc' = "reading"
  /\ UNCHANGED << scanFormat, scanBytes, cursor, metadata, errors, warnings,
                  foundKeys, ifdCount, visited >>
  /\ UNCHANGED << vars, callVars, exifVars, ctlVars >>

(* ---- sfMetaScannerPng ---------------------------------------------------- *)
PNG_CHUNK_TYPES ==
  { <<73, 72, 68, 82>>, <<80, 76, 84, 69>>, <<73, 68, 65, 84>>, <<73, 69, 78, 68>>, <<97, 99, 84, 76>>, <<102, 99, 84, 76>>, <<102, 100, 65, 84>>, <<116, 69, 88, 116>>,
    <<122, 84, 88, 116>>, <<105, 84, 88, 116>>, <<103, 65, 77, 65>>, <<99, 72, 82, 77>>, <<115, 82, 71, 66>>, <<112, 72, 89, 115>>, <<116, 73, 77, 69>> }

(* chunkData.indexOf(0): the 0-based index of the first 0 byte, or -1 *)
indexOf0(chunkData) ==
  IF \E k \in 1..Len(chunkData) : chunkData[k] = 0
  THEN (CHOOSE k \in 1..Len(chunkData) :
          chunkData[k] = 0 /\ \A j \in 1..(k - 1) : chunkData[j] # 0) - 1
  ELSE 0 - 1

(* what lines 64-78 append to the value of a tEXt or iTXt item:            *)
(* " - keyword: text.substring(0, 50)..."                                   *)
pngTextDetail(chunkData, nullSeparatorIndex) ==
  IF nullSeparatorIndex > 0
  THEN decode(slice(chunkData, 0, nullSeparatorIndex)) \o <<58, 32>>
         \o slice(decode(slice(chunkData, nullSeparatorIndex + 1, Len(chunkData))), 0, 50)
  ELSE <<>>

(* the item pushed for the chunk at offset i *)
pngItem(bytes, i, length, type) ==
  Item(type,
       Msg(IF type \in PNG_CHUNK_TYPES THEN "known chunk" ELSE "unknown chunk",
           IF type \in {<<116, 69, 88, 116>>, <<105, 84, 88, 116>>}
           THEN pngTextDetail(slice(bytes, i + 8, i + 8 + length),
                              indexOf0(slice(bytes, i + 8, i + 8 + length)))
           ELSE <<>>))

MSG_PNG_HEADER == "corrupted chunk header at the end of the file"
MSG_PNG_LENGTH == "abnormal chunk length, scan stopped"

(* reader.onload up to the first loop test: i = 8 *)
PngLoad ==
  /\ scanner = "Png"
  /\ spc = "reading"
  /\ LoopOrSettle(8 < Len(scanBytes), <<>>, <<>>, 8)
  /\ UNCHANGED << scanFormat, scanBytes, scanner, warnings, foundKeys, ifdCount, visited >>
  /\ UNCHANGED << vars, callVars, exifVars, ctlVars >>

(* the rest of an iteration once the chunk header was read *)
PngChunkAt(i, length, type, meta) ==
  IF type = <<73, 69, 78, 68>>
  THEN Settle(errors, meta, FALSE) /\ cursor' = cursor
  ELSE IF i + 12 + length <= i \/ i + 12 + length > Len(scanBytes)
  THEN Settle(Append(errors, Msg(MSG_PNG_LENGTH, type)), meta, FALSE) /\ cursor' = cursor
  ELSE LoopOrSettle(i + 12 + length < Len(scanBytes), errors, meta, i + 12 + length)

(* one iteration of the chunk loop, lines 47-96 *)
PngChunk ==
  /\ scanner = "Png"
  /\ spc = "loop"
  /\ visited' = Append(visited, cursor)
  /\ IF cursor + 8 > Len(scanBytes)
     THEN Settle(Append(errors, Msg(MSG_PNG_HEADER, <<>>)), metadata, FALSE)
          /\ cursor' = cursor
     ELSE \E length \in {getUint32BE(scanBytes, cursor)},
             type \in {decode(slice(scanBytes, cursor + 4, cursor + 8))} :
            PngChunkAt(cursor, length, type,
                       Append(metadata, pngItem(scanBytes, cursor, length, type)))
  /\ UNCHANGED << scanFormat, scanBytes, scanner, warnings, foundKeys, ifdCount >>
  /\ UNCHANGED << vars, callVars, exifVars, ctlVars >>

(* ---- sfMetaScannerWebp --------------------------------------------------- *)
WEBP_CHUNK_TYPES ==
  { <<86, 80, 56, 32>>, <<86, 80, 56, 76>>, <<86, 80, 56, 88>>, <<65, 78, 73, 77>>, <<65, 78, 77, 70>>, <<65, 76, 80, 72>>, <<73, 67, 67, 80>>, <<69, 88, 73, 70>>, <<88, 77, 80, 32>> }

MSG_WEBP_HEADER == "not a valid WebP (RIFF) file header"
MSG_WEBP_LENGTH == "abnormal chunk length, scan stopped"

(* reader.onload up to the first loop test, lines 31-52 *)
WebpLoad ==
  /\ scanner = "Webp"
  /\ spc = "reading"
  /\ IF decode(slice(scanBytes, 0, 4)) = <<82, 73, 70, 70>>
          /\ decode(slice(scanBytes, 8, 12)) = <<87, 69, 66, 80>>
     THEN LoopOrSettle(12 < Len(scanBytes) - 8, <<>>,
                       << Item(<<82, 73, 70, 70, 47, 87, 69, 66, 80>>, Msg("WebP Container Header", <<>>)) >>, 12)
     ELSE Settle(<< Msg(MSG_WEBP_HEADER, <<>>) >>, <<>>, FALSE) /\ cursor' = cursor
  /\ UNCHANGED << scanFormat, scanBytes, scanner, warnings, foundKeys, ifdCount, visited >>
  /\ UNCHANGED << vars, callVars, exifVars, ctlVars >>

(* the unpadded next position, i + 8 + chunkSize (line 67 alone) *)
webpNextChunkPos_NoPadding(i, chunkSize) == i + 8 + chunkSize

(* nextChunkPos of lines 67-72: one byte of padding after an odd size *)
webpNextChunkPos(i, chunkSize) ==
  IF chunkSize % 2 # 0 THEN i + 8 + chunkSize + 1 ELSE i + 8 + chunkSize

(* the rest of an iteration once the chunk header was read *)
WebpChunkAt(i, chunkId, nextChunkPos, meta) ==
  IF nextChunkPos <= i \/ nextChunkPos > Len(scanBytes)
  THEN Settle(Append(errors, Msg(MSG_WEBP_LENGTH, chunkId)), meta, FALSE)
       /\ cursor' = cursor
  ELSE LoopOrSettle(nextChunkPos < Len(scanBytes) - 8, errors, meta, nextChunkPos)

(* one iteration of the chunk loop, lines 52-81 *)
WebpChunk ==
  /\ scanner = "Webp"
  /\ spc = "loop"
  /\ visited' = Append(visited, cursor)
  /\ \E chunkId \in {decode(slice(scanBytes, cursor, cursor + 4))},
        chunkSize \in {getUint32LE(scanBytes, cursor + 4)} :
       WebpChunkAt(cursor, chunkId, webpNextChunkPos(cursor, chunkSize),
                   Append(metadata,
                          Item(chunkId,
                               Msg(IF chunkId \in WEBP_CHUNK_TYPES
                                   THEN "known chunk" ELSE "unknown chunk", <<>>))))
  /\ UNCHANGED << scanFormat, scanBytes, scanner, warnings, foundKeys, ifdCount >>
  /\ UNCHANGED << vars, callVars, exifVars, ctlVars >>

(* ---- sfMetaScannerGif ---------------------------------------------------- *)
(* _skipSubBlocks(bytes, startIndex): the position after the terminator *)
RECURSIVE skipSubBlocks(_, _)
skipSubBlocks(bytes, i) ==
  IF i < Len(bytes) /\ At(bytes, i) # 0
  THEN skipSubBlocks(bytes, i + At(bytes, i) + 1)
  ELSE i + 1

(* _extractSubBlockData(bytes, startIndex): the sub-blocks' data, joined *)
RECURSIVE extractSubBlockData(_, _)
extractSubBlockData(bytes, i) ==
  IF i < Len(bytes) /\ At(bytes, i) # 0
  THEN slice(bytes, i + 1, i + 1 + At(bytes, i))
         \o extractSubBlockData(bytes, i + At(bytes, i) + 1)
  ELSE <<>>

(* 2 ** n *)
RECURSIVE pow2(_)
pow2(n) == IF n = 0 THEN 1 ELSE 2 * pow2(n - 1)

(* the labels of GIF_BLOCK_TYPES[0x21] and the key of each:                *)
(* Ext(0x + label.toString(16).toUpperCase() + )                            *)
GIF_EXTENSION_LABELS == {249, 254, 1, 255}
gifExtKey(label) ==
  CASE label = Some(249) -> <<69, 120, 116, 40, 48, 120, 70, 57, 41>>
    [] label = Some(254) -> <<69, 120, 116, 40, 48, 120, 70, 69, 41>>
    [] label = Some(1)   -> <<69, 120, 116, 40, 48, 120, 49, 41>>
    [] label = Some(255) -> <<69, 120, 116, 40, 48, 120, 70, 70, 41>>
    [] OTHER -> <<69, 120, 116, 40, 85, 110, 107, 110, 111, 119, 110, 41>>

(* the item of an extension block at offset i; label is bytes[i + 1],      *)
(* undefined past the end of the buffer                                     *)
gifExtItem(bytes, i, label) ==
  Item(gifExtKey(label),
       Msg(IF ~IsNull(label) /\ Get(label) \in GIF_EXTENSION_LABELS
           THEN "known extension" ELSE "unknown extension block",
           IF label = Some(254) THEN decode(extractSubBlockData(bytes, i + 2))
           ELSE <<>>))

MSG_GIF_HEADER == "not a valid GIF file header"
MSG_GIF_BLOCK  == "unknown block identifier, scan stopped"

(* the cursor after the logical screen descriptor and the global colour    *)
(* table, lines 58-73                                                        *)
gifAfterLsd(bytes) ==
  IF 6 + 7 <= Len(bytes)
  THEN IF At(bytes, 10) >= 128
       THEN 13 + 3 * pow2((At(bytes, 10) % 8) + 1)
       ELSE 13
  ELSE 6

gifHeaderItems(bytes) ==
  << Item(<<72, 69, 65, 68, 69, 82>>, Msg("Header", decode(slice(bytes, 0, 6)))) >>
  \o (IF 6 + 7 <= Len(bytes)
      THEN << Item(<<76, 83, 68>>, Msg("Logical Screen Descriptor", <<>>)) >>
           \o (IF At(bytes, 10) >= 128
               THEN << Item(<<71, 67, 84>>, Msg("Global Color Table",
                                         << 3 * pow2((At(bytes, 10) % 8) + 1) >>)) >>
               ELSE <<>>)
      ELSE <<>>)

(* reader.onload up to the first loop test, lines 36-76 *)
GifLoad ==
  /\ scanner = "Gif"
  /\ spc = "reading"
  /\ IF slice(decode(slice(scanBytes, 0, 6)), 0, 3) = <<71, 73, 70>>
     THEN LoopOrSettle(gifAfterLsd(scanBytes) < Len(scanBytes), <<>>,
                       gifHeaderItems(scanBytes), gifAfterLsd(scanBytes))
     ELSE Settle(<< Msg(MSG_GIF_HEADER, <<>>) >>, <<>>, FALSE) /\ cursor' = cursor
  /\ UNCHANGED << scanFormat, scanBytes, scanner, warnings, foundKeys, ifdCount, visited >>
  /\ UNCHANGED << vars, callVars, exifVars, ctlVars >>

(* one iteration of the block loop, lines 76-140 *)
GifBlock ==
  /\ scanner = "Gif"
  /\ spc = "loop"
  /\ visited' = Append(visited, cursor)
  /\ \E introducer \in {At(scanBytes, cursor)} :
       CASE introducer = 33 ->
              \E label \in { IF cursor + 1 < Len(scanBytes)
                             THEN Some(At(scanBytes, cursor + 1)) ELSE Null },
                 next \in {skipSubBlocks(scanBytes, cursor + 2)} :
                LoopOrSettle(next < Len(scanBytes), errors,
                             Append(metadata, gifExtItem(scanBytes, cursor, label)), next)
         [] introducer = 44 ->
              \E next \in {skipSubBlocks(scanBytes, cursor + 9 + 1)} :
                LoopOrSettle(next < Len(scanBytes), errors,
                             Append(metadata,
                                    Item(<<73, 77, 71, 32, 68, 69, 83, 67>>, Msg("Image Descriptor", <<>>))),
                             next)
         [] introducer = 59 ->
              LoopOrSettle(FALSE, errors,
                           Append(metadata, Item(<<84, 82, 65, 73, 76, 69, 82>>, Msg("Trailer", <<>>))),
                           Len(scanBytes))
         [] OTHER ->
              LoopOrSettle(FALSE, Append(errors, Msg(MSG_GIF_BLOCK, <<introducer, cursor>>)),
                           metadata, Len(scanBytes))
  /\ UNCHANGED << scanFormat, scanBytes, scanner, warnings, foundKeys, ifdCount >>
  /\ UNCHANGED << vars, callVars, exifVars, ctlVars >>

(* ---- sfMetaScannerAvif --------------------------------------------------- *)
AVIF_BOX_TYPES ==
  { <<102, 116, 121, 112>>, <<109, 101, 116, 97>>, <<104, 100, 108, 114>>, <<112, 105, 116, 109>>, <<105, 108, 111, 99>>, <<105, 105, 110, 102>>, <<105, 112, 114, 112>>, <<105, 112, 99, 111>>,
    <<105, 115, 112, 101>>, <<112, 105, 120, 105>>, <<97, 118, 49, 67>>, <<99, 111, 108, 114>>, <<103, 114, 105, 100>>, <<109, 100, 97, 116>> }

MSG_BOX_64BIT == "64-bit box sizes are not supported"
MSG_BOX_SIZE  == "abnormal box size, scan stopped"

(* reader.onload up to the first loop test: i = 0 *)
AvifLoad ==
  /\ scanner = "Avif"
  /\ spc = "reading"
  /\ LoopOrSettle(0 < Len(scanBytes) - 8, <<>>, <<>>, 0)
  /\ UNCHANGED << scanFormat, scanBytes, scanner, warnings, foundKeys, ifdCount, visited >>
  /\ UNCHANGED << vars, callVars, exifVars, ctlVars >>

(* the two getUint32 reads at i + 8 and i + 12 as the value's suffix *)
boxExtents(bytes, i) == << getUint32BE(bytes, i + 8), getUint32BE(bytes, i + 12) >>

(* lines 65-89: what the size of the box makes of the walk *)
AvifBoxAt(i, boxSize, boxType, meta) ==
  IF boxSize = 0
  THEN Settle(errors, meta, FALSE) /\ cursor' = cursor
  ELSE IF boxSize = 1
  THEN Settle(IF i + 16 > Len(scanBytes) THEN errors
              ELSE Append(errors, Msg(MSG_BOX_64BIT, boxType)), meta, FALSE)
       /\ cursor' = cursor
  ELSE IF i + boxSize <= i \/ i + boxSize > Len(scanBytes)
  THEN Settle(Append(errors, Msg(MSG_BOX_SIZE, boxType)), meta, FALSE)
       /\ cursor' = cursor
  ELSE LoopOrSettle(i + boxSize < Len(scanBytes) - 8, errors, meta, i + boxSize)

(* one iteration of the box loop, lines 45-90 *)
AvifBox ==
  /\ scanner = "Avif"
  /\ spc = "loop"
  /\ visited' = Append(visited, cursor)
  /\ \E boxSize \in {getUint32BE(scanBytes, cursor)},
        boxType \in {decode(slice(scanBytes, cursor + 4, cursor + 8))} :
       IF boxType = <<105, 115, 112, 101>> /\ boxSize >= 16
       THEN IF cursor + 16 > Len(scanBytes)
            THEN \* view.getUint32 throws RangeError
                 Uncaught(errors,
                          Append(metadata,
                                 Item(boxType, Msg("known box", <<>>))))
                 /\ cursor' = cursor
            ELSE AvifBoxAt(cursor, boxSize, boxType,
                           Append(metadata,
                                  Item(boxType,
                                       Msg("known box", boxExtents(scanBytes, cursor)))))
       ELSE AvifBoxAt(cursor, boxSize, boxType,
                      Append(metadata,
                             Item(boxType,
                                  Msg(IF boxType \in AVIF_BOX_TYPES
                                      THEN "known box" ELSE "unknown box", <<>>))))
  /\ UNCHANGED << scanFormat, scanBytes, scanner, warnings, foundKeys, ifdCount >>
  /\ UNCHANGED << vars, callVars, exifVars, ctlVars >>

(* ---- sfMetaScannerHeic --------------------------------------------------- *)
HEIC_BOX_TYPES ==
  { <<102, 116, 121, 112>>, <<109, 101, 116, 97>>, <<104, 100, 108, 114>>, <<112, 105, 116, 109>>, <<105, 108, 111, 99>>, <<105, 105, 110, 102>>, <<105, 112, 114, 112>>, <<105, 112, 99, 111>>,
    <<105, 115, 112, 101>>, <<112, 105, 120, 105>>, <<104, 118, 99, 67>>, <<99, 111, 108, 114>>, <<103, 114, 105, 100>>, <<109, 100, 97, 116>> }

HeicLoad ==
  /\ scanner = "Heic"
  /\ spc = "reading"
  /\ LoopOrSettle(0 < Len(scanBytes) - 8, <<>>, <<>>, 0)
  /\ UNCHANGED << scanFormat, scanBytes, scanner, warnings, foundKeys, ifdCount, visited >>
  /\ UNCHANGED << vars, callVars, exifVars, ctlVars >>

(* lines 70-90: what the size of the box makes of the walk *)
HeicBoxAt(i, boxSize, boxType, meta) ==
  IF boxSize = 0
  THEN Settle(errors, meta, FALSE) /\ cursor' = cursor
  ELSE IF boxSize = 1
  THEN Settle(Append(errors, Msg(MSG_BOX_64BIT, boxType)), meta, FALSE)
       /\ cursor' = cursor
  ELSE IF i + boxSize <= i \/ i + boxSize > Len(scanBytes)
  THEN Settle(Append(errors, Msg(MSG_BOX_SIZE, boxType)), meta, FALSE)
       /\ cursor' = cursor
  ELSE LoopOrSettle(i + boxSize < Len(scanBytes) - 8, errors, meta, i + boxSize)

(* the suffix lines 61-68 add to the value of an ftyp box: its major brand *)
heicBrand(bytes, i, boxSize, boxType) ==
  IF boxType = <<102, 116, 121, 112>> /\ boxSize >= 12
  THEN decode(slice(bytes, i + 8, i + 12))
  ELSE <<>>

(* one iteration of the box loop, lines 44-91 *)
HeicBox ==
  /\ scanner = "Heic"
  /\ spc = "loop"
  /\ visited' = Append(visited, cursor)
  /\ \E boxSize \in {getUint32BE(scanBytes, cursor)},
        boxType \in {decode(slice(scanBytes, cursor + 4, cursor + 8))} :
       IF boxType = <<105, 115, 112, 101>> /\ boxSize >= 16
       THEN IF cursor + 16 > Len(scanBytes)
            THEN \* view.getUint32 throws RangeError
                 Uncaught(errors,
                          Append(metadata, Item(boxType, Msg("known box", <<>>))))
                 /\ cursor' = cursor
            ELSE HeicBoxAt(cursor, boxSize, boxType,
                           Append(metadata,
                                  Item(boxType,
                                       Msg("known box", boxExtents(scanBytes, cursor)))))
       ELSE HeicBoxAt(cursor, boxSize, boxType,
                      Append(metadata,
                             Item(boxType,
                                  Msg(IF boxType \in HEIC_BOX_TYPES
                                      THEN "known box" ELSE "unknown box",
                                      heicBrand(scanBytes, cursor, boxSize, boxType)))))
  /\ UNCHANGED << scanFormat, scanBytes, scanner, warnings, foundKeys, ifdCount >>
  /\ UNCHANGED << vars, callVars, exifVars, ctlVars >>

(* ---- sfMetaScannerJp2 ---------------------------------------------------- *)
JP2_BOX_TYPES ==
  { <<106, 80, 32, 32>>, <<102, 116, 121, 112>>, <<106, 112, 50, 104>>, <<105, 104, 100, 114>>, <<99, 111, 108, 114>>, <<114, 101, 115, 32>>, <<106, 112, 50, 99>> }

MSG_JP2_SIGNATURE == "no valid JPEG 2000 signature box at the start of the file"

(* reader.onload up to the first loop test, lines 29-56 *)
Jp2Load ==
  /\ scanner = "Jp2"
  /\ spc = "reading"
  /\ IF Len(scanBytes) < 12
          \/ ~(\A idx \in 1..Len(JP2_SIG) : JP2_SIG[idx] = scanBytes[idx])
     THEN Settle(<< Msg(MSG_JP2_SIGNATURE, <<>>) >>, <<>>, FALSE) /\ cursor' = cursor
     ELSE LoopOrSettle(12 < Len(scanBytes) - 8, <<>>,
                       << Item(<<106, 80, 32, 32>>, Msg("known box", <<>>)) >>, 12)
  /\ UNCHANGED << scanFormat, scanBytes, scanner, warnings, foundKeys, ifdCount, visited >>
  /\ UNCHANGED << vars, callVars, exifVars, ctlVars >>

(* lines 74-94: what the size of the box makes of the walk *)
Jp2BoxAt(i, boxSize, boxType, meta) ==
  IF boxSize = 0
  THEN Settle(errors, meta, FALSE) /\ cursor' = cursor
  ELSE IF boxSize = 1
  THEN Settle(Append(errors, Msg(MSG_BOX_64BIT, boxType)), meta, FALSE)
       /\ cursor' = cursor
  ELSE IF i + boxSize <= i \/ i + boxSize > Len(scanBytes)
  THEN Settle(Append(errors, Msg(MSG_BOX_SIZE, boxType)), meta, FALSE)
       /\ cursor' = cursor
  ELSE LoopOrSettle(i + boxSize < Len(scanBytes) - 8, errors, meta, i + boxSize)

(* one iteration of the box loop, lines 56-95; height is read before width *)
Jp2Box ==
  /\ scanner = "Jp2"
  /\ spc = "loop"
  /\ visited' = Append(visited, cursor)
  /\ \E boxSize \in {getUint32BE(scanBytes, cursor)},
        boxType \in {decode(slice(scanBytes, cursor + 4, cursor + 8))} :
       IF boxType = <<105, 104, 100, 114>> /\ boxSize >= 22
       THEN IF cursor + 16 > Len(scanBytes)
            THEN \* view.getUint32 throws RangeError
                 Uncaught(errors,
                          Append(metadata, Item(boxType, Msg("known box", <<>>))))
                 /\ cursor' = cursor
            ELSE Jp2BoxAt(cursor, boxSize, boxType,
                          Append(metadata,
                                 Item(boxType,
                                      Msg("known box",
                                          << getUint32BE(scanBytes, cursor + 12),
                                             getUint32BE(scanBytes, cursor + 8) >>))))
       ELSE Jp2BoxAt(cursor, boxSize, boxType,
                     Append(metadata,
                            Item(boxType,
                                 Msg(IF boxType \in JP2_BOX_TYPES
                                     THEN "known box" ELSE "unknown box", <<>>))))
  /\ UNCHANGED << scanFormat, scanBytes, scanner, warnings, foundKeys, ifdCount >>
  /\ UNCHANGED << vars, callVars, exifVars, ctlVars >>

(* ---- sfMetaScannerTiff --------------------------------------------------- *)
(* Number.prototype.toString(): the decimal digits of n >= 0 *)
RECURSIVE decimal(_)
decimal(n) == IF n < 10 THEN <<48 + n>> ELSE decimal(n \div 10) \o <<48 + (n % 10)>>

(* Number.prototype.toString(16): the lower-case hex digits of n >= 0 *)
hexDigit(d) == IF d < 10 THEN 48 + d ELSE 87 + d
RECURSIVE toString16(_)
toString16(n) ==
  IF n < 16 THEN <<hexDigit(n)>> ELSE toString16(n \div 16) \o <<hexDigit(n % 16)>>

(* DataView reads with the littleEndian flag *)
getUint16(bytes, o, littleEndian) ==
  IF littleEndian THEN getUint16LE(bytes, o) ELSE getUint16BE(bytes, o)
getUint32(bytes, o, littleEndian) ==
  IF littleEndian THEN getUint32LE(bytes, o) ELSE getUint32BE(bytes, o)

(* the ids of TIFF_TAGS and the name of a tag *)
TIFF_TAG_IDS == { 256, 257, 258, 259, 262, 271, 272, 274, 282, 283, 305, 306, 34665, 34853 }
tiffTagName(tagId) ==
  CASE tagId = 256 -> <<73, 109, 97, 103, 101, 87, 105, 100, 116, 104>>
    [] tagId = 257 -> <<73, 109, 97, 103, 101, 76, 101, 110, 103, 116, 104>>
    [] tagId = 258 -> <<66, 105, 116, 115, 80, 101, 114, 83, 97, 109, 112, 108, 101>>
    [] tagId = 259 -> <<67, 111, 109, 112, 114, 101, 115, 115, 105, 111, 110>>
    [] tagId = 262 -> <<80, 104, 111, 116, 111, 109, 101, 116, 114, 105, 99, 73, 110, 116, 101, 114, 112, 114, 101, 116, 97, 116, 105, 111, 110>>
    [] tagId = 271 -> <<77, 97, 107, 101>>
    [] tagId = 272 -> <<77, 111, 100, 101, 108>>
    [] tagId = 274 -> <<79, 114, 105, 101, 110, 116, 97, 116, 105, 111, 110>>
    [] tagId = 282 -> <<88, 82, 101, 115, 111, 108, 117, 116, 105, 111, 110>>
    [] tagId = 283 -> <<89, 82, 101, 115, 111, 108, 117, 116, 105, 111, 110>>
    [] tagId = 305 -> <<83, 111, 102, 116, 119, 97, 114, 101>>
    [] tagId = 306 -> <<68, 97, 116, 101, 84, 105, 109, 101>>
    [] tagId = 34665 -> <<69, 120, 105, 102, 79, 102, 102, 115, 101, 116>>
    [] tagId = 34853 -> <<71, 80, 83, 73, 110, 102, 111>>
    [] OTHER -> <<85, 110, 107, 110, 111, 119, 110, 32, 84, 97, 103, 32, 40, 48, 120>> \o toString16(tagId) \o <<41>>

tiffTagItem(tagId) ==
  Item(tiffTagName(tagId),
       Msg(IF tagId \in TIFF_TAG_IDS THEN "tag description" ELSE "", <<>>))

MSG_TIFF_SMALL == "file too small to hold a valid TIFF header"
MSG_TIFF_ORDER == "no valid TIFF byte order marker (II or MM)"
MSG_TIFF_MAGIC == "invalid TIFF magic number (expected 42)"
MSG_TIFF_IFD   == "IFD offset beyond the file size"

(* isLittleEndian of line 56 *)
tiffLittleEndian(bytes) == getUint16BE(bytes, 0) = 18761

(* reader.onload up to the first loop test, lines 39-87 *)
TiffLoad ==
  /\ scanner = "Tiff"
  /\ spc = "reading"
  /\ IF Len(scanBytes) < 8
     THEN Settle(<< Msg(MSG_TIFF_SMALL, <<>>) >>, <<>>, TRUE) /\ cursor' = cursor
     ELSE IF getUint16BE(scanBytes, 0) \notin {18761, 19789}
     THEN Settle(<< Msg(MSG_TIFF_ORDER, <<>>) >>, <<>>, FALSE) /\ cursor' = cursor
     ELSE IF getUint16(scanBytes, 2, tiffLittleEndian(scanBytes)) # 42
     THEN Settle(<< Msg(MSG_TIFF_MAGIC,
                        << getUint16(scanBytes, 2, tiffLittleEndian(scanBytes)) >>) >>,
                 <<>>, FALSE)
          /\ cursor' = cursor
     ELSE \E currentIfdOffset \in {getUint32(scanBytes, 4, tiffLittleEndian(scanBytes))} :
            LoopOrSettle(currentIfdOffset # 0, <<>>, <<>>, currentIfdOffset)
  /\ UNCHANGED << scanFormat, scanBytes, scanner, warnings, foundKeys, ifdCount, visited >>
  /\ UNCHANGED << vars, callVars, exifVars, ctlVars >>

(* the number of entries of the IFD at offset whose tag id can be read:    *)
(* entry k (from 0) is read at offset + 2 + 12 k                            *)
tiffReadable(bytes, offset, entryCount) ==
  IF offset + 4 > Len(bytes) THEN 0
  ELSE Min(entryCount, ((Len(bytes) - offset - 4) \div 12) + 1)

(* the items pushed for the first n entries of the IFD at offset *)
tiffEntryItems(bytes, offset, n, littleEndian) ==
  [ k \in 1..n |-> tiffTagItem(getUint16(bytes, offset + 2 + 12 * (k - 1), littleEndian)) ]

(* the IFD at currentIfdOffset once its entry count was read, lines 103-123 *)
TiffIfdAt(offset, entryCount, littleEndian, meta) ==
  IF tiffReadable(scanBytes, offset, entryCount) < entryCount
  THEN \* view.getUint16(entryOffset) throws RangeError
       Uncaught(errors,
                meta \o tiffEntryItems(scanBytes, offset,
                                       tiffReadable(scanBytes, offset, entryCount),
                                       littleEndian))
       /\ cursor' = cursor
  ELSE IF offset + 2 + 12 * entryCount + 4 > Len(scanBytes)
  THEN \* view.getUint32(entryOffset) throws RangeError
       Uncaught(errors, meta \o tiffEntryItems(scanBytes, offset, entryCount, littleEndian))
       /\ cursor' = cursor
  ELSE \E nextIfdOffset \in {getUint32(scanBytes, offset + 2 + 12 * entryCount, littleEndian)} :
         LoopOrSettle(nextIfdOffset # 0, errors,
                      meta \o tiffEntryItems(scanBytes, offset, entryCount, littleEndian),
                      nextIfdOffset)

(* the IFD loop is followed for MaxIfd directories *)
MaxIfd == 4

(* one iteration of the IFD loop, lines 87-124 *)
TiffIfd ==
  /\ scanner = "Tiff"
  /\ spc = "loop"
  /\ ifdCount < MaxIfd
  /\ ifdCount' = ifdCount + 1
  /\ visited' = Append(visited, cursor)
  /\ \E meta \in { Append(metadata,
                          Item(<<73, 70, 68, 32, 35>> \o decimal(ifdCount + 1),
                               Msg("Directory at offset", <<cursor>>))) } :
       IF cursor + 2 > Len(scanBytes)
       THEN Settle(Append(errors, Msg(MSG_TIFF_IFD, <<ifdCount + 1>>)), meta, FALSE)
            /\ cursor' = cursor
       ELSE TiffIfdAt(cursor, getUint16(scanBytes, cursor, tiffLittleEndian(scanBytes)),
                      tiffLittleEndian(scanBytes), meta)
  /\ UNCHANGED << scanFormat, scanBytes, scanner, warnings, foundKeys >>
  /\ UNCHANGED << vars, callVars, exifVars, ctlVars >>

(* ---- sfMetaScannerIco ---------------------------------------------------- *)
MSG_ICO_SMALL == "file too small to hold a valid ICO header"
MSG_ICO_SIG   == "not a valid ICO file signature"
MSG_ICO_ENTRY == "directory entry of the image beyond the file size"

(* the item of directory entry i (from 0), lines 63-74; width and height   *)
(* 0 mean 256                                                               *)
icoEntryItem(bytes, i) ==
  Item(<<73, 109, 97, 103, 101, 32, 35>> \o decimal(i + 1),
       Msg("image",
           << IF At(bytes, 6 + i * 16) = 0 THEN 256 ELSE At(bytes, 6 + i * 16),
              IF At(bytes, 6 + i * 16 + 1) = 0 THEN 256 ELSE At(bytes, 6 + i * 16 + 1),
              getUint16LE(bytes, 6 + i * 16 + 6),
              getUint32LE(bytes, 6 + i * 16 + 8),
              getUint32LE(bytes, 6 + i * 16 + 12) >>))

(* the number of directory entries that lie inside the buffer *)
icoEntriesInside(bytes, imageCount) == Min(imageCount, (Len(bytes) - 6) \div 16)

(* the directory loop, lines 49-75 *)
icoScan(bytes, imageCount) ==
  [ errors |-> IF icoEntriesInside(bytes, imageCount) < imageCount
               THEN << Msg(MSG_ICO_ENTRY, << icoEntriesInside(bytes, imageCount) + 1 >>) >>
               ELSE <<>>,
    metadata |-> << Item(<<73, 67, 79, 32, 72, 101, 97, 100, 101, 114>>, Msg("Windows Icon Resource", <<>>)),
                    Item(<<73, 109, 97, 103, 101, 32, 67, 111, 117, 110, 116>>, Msg("images", <<imageCount>>)) >>
                 \o [ k \in 1..icoEntriesInside(bytes, imageCount) |->
                        icoEntryItem(bytes, k - 1) ] ]

(* reader.onload, lines 16-79 *)
IcoLoad ==
  /\ scanner = "Ico"
  /\ spc = "reading"
  /\ IF Len(scanBytes) < 6
     THEN Settle(<< Msg(MSG_ICO_SMALL, <<>>) >>, <<>>, TRUE)
     ELSE IF getUint16LE(scanBytes, 0) # 0 \/ getUint16LE(scanBytes, 2) # 1
     THEN Settle(<< Msg(MSG_ICO_SIG, <<>>) >>, <<>>, FALSE)
     ELSE \E r \in {icoScan(scanBytes, getUint16LE(scanBytes, 4))} :
            Settle(r.errors, r.metadata, FALSE)
  /\ UNCHANGED << scanFormat, scanBytes, scanner, cursor, warnings, foundKeys,
                  ifdCount, visited >>
  /\ UNCHANGED << vars, callVars, exifVars, ctlVars >>

(* ---- sfMetaScannerBmp ---------------------------------------------------- *)
MSG_BMP_SMALL == "file too small to hold a valid BMP header"
MSG_BMP_MAGIC == "not a valid BMP magic number (BM)"

(* the codes of BMP_COMPRESSION_METHODS *)
BMP_COMPRESSION_CODES == 0..5

(* the items of lines 38-85 *)
bmpItems(bytes) ==
  << Item(<<77, 97, 103, 105, 99, 32, 78, 117, 109, 98, 101, 114>>, Msg("BM (Bitmap)", <<>>)),
     Item(<<70, 105, 108, 101, 32, 83, 105, 122, 101>>, Msg("bytes", << getUint32LE(bytes, 2) >>)),
     Item(<<80, 105, 120, 101, 108, 32, 68, 97, 116, 97, 32, 79, 102, 102, 115, 101, 116>>, Msg("start position", << getUint32LE(bytes, 10) >>)),
     Item(<<73, 110, 102, 111, 32, 72, 101, 97, 100, 101, 114, 32, 83, 105, 122, 101>>, Msg("bytes", << getUint32LE(bytes, 14) >>)),
     Item(<<73, 109, 97, 103, 101, 32, 87, 105, 100, 116, 104>>, Msg("pixels", << getInt32LE(bytes, 18) >>)),
     Item(<<73, 109, 97, 103, 101, 32, 72, 101, 105, 103, 104, 116>>, Msg("pixels", << getInt32LE(bytes, 22) >>)),
     Item(<<66, 105, 116, 115, 32, 80, 101, 114, 32, 80, 105, 120, 101, 108>>, Msg("bit", << getUint16LE(bytes, 28) >>)),
     Item(<<67, 111, 109, 112, 114, 101, 115, 115, 105, 111, 110>>,
          Msg(IF getUint32LE(bytes, 30) \in BMP_COMPRESSION_CODES
              THEN "known method" ELSE "unknown",
              << getUint32LE(bytes, 30) >>)) >>
  \o (IF getUint16LE(bytes, 28) <= 8
      THEN << Item(<<67, 111, 108, 111, 114, 32, 84, 97, 98, 108, 101>>, Msg("a colour table is likely", <<>>)) >>
      ELSE <<>>)

(* reader.onload, lines 21-88 of the class *)
BmpLoad ==
  /\ scanner = "Bmp"
  /\ spc = "reading"
  /\ IF Len(scanBytes) < 54
     THEN Settle(<< Msg(MSG_BMP_SMALL, <<>>) >>, <<>>, TRUE)
     ELSE IF decode(slice(scanBytes, 0, 2)) # <<66, 77>>
     THEN Settle(<< Msg(MSG_BMP_MAGIC, <<>>) >>, <<>>, FALSE)
     ELSE Settle(<<>>, bmpItems(scanBytes), FALSE)
  /\ UNCHANGED << scanFormat, scanBytes, scanner, cursor, warnings, foundKeys,
                  ifdCount, visited >>
  /\ UNCHANGED << vars, callVars, exifVars, ctlVars >>

(* ---- sfMetaScannerSvg ---------------------------------------------------- *)
(* String.prototype.toLowerCase on a text of ASCII letters *)
lowerText(text) == [k \in 1..Len(text) |-> toLowerCase(text[k])]

(* the 0-based positions from which pattern occurs in text *)
occurrences(text, pattern) ==
  { p \in 0..(Len(text) - Len(pattern)) :
      SubSeq(text, p + 1, p + Len(pattern)) = pattern }

(* the smallest element of a non-empty set of numbers *)
least(S) == CHOOSE x \in S : \A y \in S : x <= y

(* String.prototype.trim for the ASCII white space *)
isSpace(c) == c \in {9, 10, 11, 12, 13, 32}
RECURSIVE trimStart(_)
trimStart(text) ==
  IF text # <<>> /\ isSpace(text[1]) THEN trimStart(Tail(text)) ELSE text
RECURSIVE trimEnd(_)
trimEnd(text) ==
  IF text # <<>> /\ isSpace(text[Len(text)])
  THEN trimEnd(SubSeq(text, 1, Len(text) - 1)) ELSE text
trim(text) == trimEnd(trimStart(text))

(* text.match(/<metadata[^>]*>([\s\S]*?)<\/metadata>/i): null or group 1.  *)
(* The leftmost <metadata, the first > after it, then up to the first      *)
(* </metadata> that follows                                                  *)
metadataMatchFrom(text, p) ==
  IF \E q \in (p + 9)..(Len(text) - 1) : text[q + 1] = 62
  THEN \E q \in {least({ r \in (p + 9)..(Len(text) - 1) : text[r + 1] = 62 })} :
         \E c \in { r \in occurrences(lowerText(text), <<60, 47, 109, 101, 116, 97, 100, 97, 116, 97, 62>>) : r >= q + 1 } :
           TRUE
  ELSE FALSE
metadataGroupFrom(text, p) ==
  LET q == least({ r \in (p + 9)..(Len(text) - 1) : text[r + 1] = 62 })
      c == least({ r \in occurrences(lowerText(text), <<60, 47, 109, 101, 116, 97, 100, 97, 116, 97, 62>>) : r >= q + 1 })
  IN  slice(text, q + 1, c)
metadataMatch(text) ==
  IF \E p \in occurrences(lowerText(text), <<60, 109, 101, 116, 97, 100, 97, 116, 97>>) : metadataMatchFrom(text, p)
  THEN Some(metadataGroupFrom(text,
              least({ p \in occurrences(lowerText(text), <<60, 109, 101, 116, 97, 100, 97, 116, 97>>) :
                        metadataMatchFrom(text, p) })))
  ELSE Null

MSG_SVG_SCRIPT == "a potentially dangerous <script> tag exists inside the file"

(* the test made on the text as it is, without toLowerCase *)
svgErrors_CaseSensitive(text) ==
  IF occurrences(text, <<60, 115, 99, 114, 105, 112, 116>>) # {}
  THEN << Msg(MSG_SVG_SCRIPT, <<>>) >> ELSE <<>>

(* the errors of lines 25-31 *)
svgErrors(text) ==
  IF occurrences(lowerText(text), <<60, 115, 99, 114, 105, 112, 116>>) # {}
  THEN << Msg(MSG_SVG_SCRIPT, <<>>) >> ELSE <<>>

(* the metadata of lines 33-45: the trimmed group, cut to 200 characters   *)
(* and "..."                                                                 *)
svgMetadata(match) ==
  IF ~IsNull(match) /\ trim(Get(match)) # <<>>
  THEN << Item(<<83, 86, 71, 32, 77, 101, 116, 97, 100, 97, 116, 97>>,
               Msg("metadata",
                   IF Len(trim(Get(match))) > 200
                   THEN slice(trim(Get(match)), 0, 200) \o <<46, 46, 46>>
                   ELSE trim(Get(match)))) >>
  ELSE <<>>

(* reader.onload on the text readAsText decoded, lines 20-48 *)
SvgLoad ==
  /\ scanner = "Svg"
  /\ spc = "reading"
  /\ \E text \in { decode(scanBytes) } :
       \E match \in { metadataMatch(text) } :
         Settle(svgErrors(text), svgMetadata(match), FALSE)
  /\ UNCHANGED << scanFormat, scanBytes, scanner, cursor, warnings, foundKeys,
                  ifdCount, visited >>
  /\ UNCHANGED << vars, callVars, exifVars, ctlVars >>

(* ---- sfMetaScannerJpeg --------------------------------------------------- *)
(* the codes of JPEG_MARKERS and the abbr of each *)
JPEG_MARKER_CODES ==
  { 65472, 65473, 65474, 65475, 65476, 65477, 65478, 65479, 65480, 65481, 65482,
    65483, 65484, 65485, 65486, 65487, 65488, 65489, 65490, 65491, 65492, 65493,
    65494, 65495, 65496, 65497, 65498, 65499, 65500, 65501, 65502, 65503, 65504,
    65505, 65506, 65507, 65508, 65509, 65510, 65511, 65512, 65513, 65514, 65515,
    65516, 65517, 65518, 65519, 65520, 65533, 65534, 65281 }
jpegAbbr(markerCode) ==
  CASE markerCode = 65472 -> <<83, 79, 70, 48>>
    [] markerCode = 65473 -> <<83, 79, 70, 49>>
    [] markerCode = 65474 -> <<83, 79, 70, 50>>
    [] markerCode = 65475 -> <<83, 79, 70, 51>>
    [] markerCode = 65476 -> <<68, 72, 84>>
    [] markerCode = 65477 -> <<83, 79, 70, 53>>
    [] markerCode = 65478 -> <<83, 79, 70, 54>>
    [] markerCode = 65479 -> <<83, 79, 70, 55>>
    [] markerCode = 65480 -> <<74, 80, 71>>
    [] markerCode = 65481 -> <<83, 79, 70, 57>>
    [] markerCode = 65482 -> <<83, 79, 70, 49, 48>>
    [] markerCode = 65483 -> <<83, 79, 70, 49, 49>>
    [] markerCode = 65484 -> <<68, 65, 67>>
    [] markerCode = 65485 -> <<83, 79, 70, 49, 51>>
    [] markerCode = 65486 -> <<83, 79, 70, 49, 52>>
    [] markerCode = 65487 -> <<83, 79, 70, 49, 53>>
    [] markerCode = 65488 -> <<82, 83, 84, 48>>
    [] markerCode = 65489 -> <<82, 83, 84, 49>>
    [] markerCode = 65490 -> <<82, 83, 84, 50>>
    [] markerCode = 65491 -> <<82, 83, 84, 51>>
    [] markerCode = 65492 -> <<82, 83, 84, 52>>
    [] markerCode = 65493 -> <<82, 83, 84, 53>>
    [] markerCode = 65494 -> <<82, 83, 84, 54>>
    [] markerCode = 65495 -> <<82, 83, 84, 55>>
    [] markerCode = 65496 -> <<83, 79, 73>>
    [] markerCode = 65497 -> <<69, 79, 73>>
    [] markerCode = 65498 -> <<83, 79, 83>>
    [] markerCode = 65499 -> <<68, 81, 84>>
    [] markerCode = 65500 -> <<68, 78, 76>>
    [] markerCode = 65501 -> <<68, 82, 73>>
    [] markerCode = 65502 -> <<68, 72, 80>>
    [] markerCode = 65503 -> <<69, 88, 80>>
    [] markerCode = 65504 -> <<65, 80, 80, 48>>
    [] markerCode = 65505 -> <<65, 80, 80, 49>>
    [] markerCode = 65506 -> <<65, 80, 80, 50>>
    [] markerCode = 65507 -> <<65, 80, 80, 51>>
    [] markerCode = 65508 -> <<65, 80, 80, 52>>
    [] markerCode = 65509 -> <<65, 80, 80, 53>>
    [] markerCode = 65510 -> <<65, 80, 80, 54>>
    [] markerCode = 65511 -> <<65, 80, 80, 55>>
    [] markerCode = 65512 -> <<65, 80, 80, 56>>
    [] markerCode = 65513 -> <<65, 80, 80, 57>>
    [] markerCode = 65514 -> <<65, 80, 80, 49, 48>>
    [] markerCode = 65515 -> <<65, 80, 80, 49, 49>>
    [] markerCode = 65516 -> <<65, 80, 80, 49, 50>>
    [] markerCode = 65517 -> <<65, 80, 80, 49, 51>>
    [] markerCode = 65518 -> <<65, 80, 80, 49, 52>>
    [] markerCode = 65519 -> <<65, 80, 80, 49, 53>>
    [] markerCode = 65520 -> <<74, 80, 71, 48>>
    [] markerCode = 65533 -> <<74, 80, 71, 49, 51>>
    [] markerCode = 65534 -> <<67, 79, 77>>
    [] markerCode = 65281 -> <<84, 69, 77>>

STANDALONE_MARKERS == {65496, 65497, 65281} \cup (65488..65495)
CRITICAL_MARKERS == << <<83, 79, 73>>, <<83, 79, 70, 48>>, <<83, 79, 83>>, <<69, 79, 73>> >>
COMMON_MARKERS == << <<68, 81, 84>>, <<68, 72, 84>>, <<65, 80, 80, 48>> >>

(* markerCode.toString(16).toUpperCase() *)
upperHexDigit(d) == IF d < 10 THEN 48 + d ELSE 55 + d
RECURSIVE toUpperString16(_)
toUpperString16(n) ==
  IF n < 16 THEN <<upperHexDigit(n)>>
  ELSE toUpperString16(n \div 16) \o <<upperHexDigit(n % 16)>>

(* an item of the JPEG scanner; length is absent or a number.  The texts   *)
(* the payload decoders write to details, and rawData, are left out         *)
jpegItem(key, value, offset, length) ==
  [ key |-> key, value |-> value, offset |-> offset, length |-> length,
    details |-> Null, isMissing |-> FALSE ]

(* newMetaItem of lines 250-265 without its length: absent for a code that *)
(* is neither in the table nor reserved                                     *)
jpegMarkerItem(markerCode, i, length) ==
  IF markerCode \in JPEG_MARKER_CODES
  THEN jpegItem(jpegAbbr(markerCode), Msg("marker name", <<markerCode>>), Some(i), length)
  ELSE jpegItem(<<82, 69, 83, 40, 48, 120>> \o toUpperString16(markerCode) \o <<41>>,
                Msg("Reserved Marker", <<>>), Some(i), length)
jpegIsListed(markerCode) ==
  markerCode \in JPEG_MARKER_CODES \/ (markerCode >= 65282 /\ markerCode <= 65471)

(* one iteration of the while loop of _scanSegment at i < bytes.length - 1:*)
(* the items pushed, the keys found, the next i, and whether the function  *)
(* leaves the loop by break or return (next is then endOfScanIndex)         *)
jpegIteration(push, found, next, leaves) ==
  [ push |-> push, found |-> found, next |-> next, leaves |-> leaves ]
jpegFound(markerCode) ==
  IF markerCode \in JPEG_MARKER_CODES THEN {jpegAbbr(markerCode)} ELSE {}
jpegSegmentAt(bytes, i, markerCode) ==
  IF ~jpegIsListed(markerCode)
  THEN jpegIteration(<<>>, {}, i + 2, FALSE)
  ELSE IF markerCode \in STANDALONE_MARKERS
  THEN jpegIteration(<< jpegMarkerItem(markerCode, i, Some(2)) >>,
                     jpegFound(markerCode), i + 2, FALSE)
  ELSE IF i + 4 > Len(bytes)
  THEN jpegIteration(<< jpegMarkerItem(markerCode, i, Null) >>,
                     jpegFound(markerCode), i, TRUE)
  ELSE jpegIteration(<< jpegMarkerItem(markerCode, i, Some(getUint16BE(bytes, i + 2) + 2)) >>,
                     jpegFound(markerCode), i + getUint16BE(bytes, i + 2) + 2,
                     markerCode = 65498)
jpegIterationAt(bytes, i) ==
  IF At(bytes, i) # 255 \/ At(bytes, i + 1) \in {0, 255}
  THEN jpegIteration(<<>>, {}, i + 1, FALSE)
  ELSE jpegSegmentAt(bytes, i, getUint16BE(bytes, i))

(* the comparator of lines 221-227 orders the items that are not missing   *)
(* by offset || Infinity (a difference of two Infinity is NaN, which sort  *)
(* takes for 0) and puts every missing item after them                      *)
Infinity == 2147483647
sortKey(item) ==
  IF IsNull(item.offset) \/ item.offset = Some(0) THEN Infinity ELSE Get(item.offset)
RECURSIVE insertByKey(_, _)
insertByKey(sorted, item) ==
  IF sorted = <<>> THEN <<item>>
  ELSE IF sortKey(sorted[Len(sorted)]) <= sortKey(item) THEN Append(sorted, item)
  ELSE Append(insertByKey(SubSeq(sorted, 1, Len(sorted) - 1), item), sorted[Len(sorted)])
RECURSIVE sortByKey(_)
sortByKey(items) ==
  IF items = <<>> THEN <<>>
  ELSE insertByKey(sortByKey(SubSeq(items, 1, Len(items) - 1)), items[Len(items)])
reversed(items) == [k \in 1..Len(items) |-> items[Len(items) + 1 - k]]

(* the items pushed for the essential markers that were not found,         *)
(* lines 200-219                                                            *)
missingItem(key) ==
  [ key |-> key, value |-> Msg("marker name", <<>>), offset |-> Null, length |-> Null,
    details |-> Null, isMissing |-> TRUE ]
missingItems(found) ==
  [ k \in 1..Len(SelectSeq(CRITICAL_MARKERS \o COMMON_MARKERS,
                           LAMBDA key : key \notin found)) |->
      missingItem(SelectSeq(CRITICAL_MARKERS \o COMMON_MARKERS,
                            LAMBDA key : key \notin found)[k]) ]

(* allMetadata after the sort.  The comparator answers 1 for two missing   *)
(* items in either order, so the order of the missing items among          *)
(* themselves is left to the engine's sort: it keeps or reverses them       *)
sortedMetadata(all, found, keepsMissingOrder) ==
  sortByKey(all)
  \o (IF keepsMissingOrder THEN missingItems(found) ELSE reversed(missingItems(found)))

(* what analyzeExifData returns for the tags the EXIF reader hands back:   *)
(* no tag, or GPS coordinates                                                *)
MSG_GPS == "privacy: GPS location information is included"
ExifResults ==
  { [ warnings |-> <<>>, metadata |-> <<>> ],
    [ warnings |-> << Msg(MSG_GPS, <<>>) >>,
      metadata |-> << Item(<<71, 80, 83, 32, 76, 97, 116, 105, 116, 117, 100, 101>>, Msg("value", <<>>)),
                      Item(<<71, 80, 83, 32, 76, 111, 110, 103, 105, 116, 117, 100, 101>>, Msg("value", <<>>)) >> ] }

(* lines 119-131: the keys of the EXIF items are written to the details of *)
(* the first APP1 item                                                       *)
firstApp1(meta) ==
  IF \E k \in 1..Len(meta) : meta[k].key = <<65, 80, 80, 49>>
  THEN least({ k \in 1..Len(meta) : meta[k].key = <<65, 80, 80, 49>> }) ELSE 0
withExifDetails(meta, exif) ==
  IF exif.metadata # <<>> /\ firstApp1(meta) > 0
  THEN [ meta EXCEPT ![firstApp1(meta)].details =
           Some([ k \in 1..Len(exif.metadata) |-> exif.metadata[k].key ]) ]
  ELSE meta

(* scan returns { errors, warnings, metadata, skipped: false } *)
JpegReturn(meta, exif) ==
  /\ errors' = <<>>
  /\ warnings' = exif.warnings
  /\ metadata' = withExifDetails(meta, exif)
  /\ result' = Some([ errors |-> <<>>, warnings |-> Some(exif.warnings),
                      metadata |-> withExifDetails(meta, exif), skipped |-> FALSE,
                      reason |-> Null ])
  /\ spc' = "resolved"

(* _scanAllMarkers from line 200, then lines 117-139 of scan *)
JpegFinish(all, found) ==
  /\ foundKeys' = found
  /\ cursor' = cursor
  /\ \E keepsMissingOrder \in BOOLEAN, exif \in ExifResults :
       JpegReturn(sortedMetadata(all, found, keepsMissingOrder), exif)

(* an exception inside the async function scan: its promise rejects *)
JpegRejects(all, found) ==
  /\ foundKeys' = found
  /\ cursor' = cursor
  /\ metadata' = all
  /\ spc' = "rejected"
  /\ UNCHANGED << errors, warnings, result >>

(* the offsets of FF D9 the search of lines 157-162 can stop at *)
eoiOffsets(bytes, from) ==
  { i \in from..(Len(bytes) - 2) : At(bytes, i) = 255 /\ At(bytes, i + 1) = 217 }

eoiItem(firstEoiIndex) ==
  jpegItem(<<69, 79, 73>>, Msg("End of Image", <<>>), Some(firstEoiIndex), Some(2))
trailingItems(bytes, trailingDataIndex) ==
  << jpegItem(<<84, 82, 65, 73, 76, 73, 78, 71, 95, 68, 65, 84, 65>>, Msg("start of the trailing data", <<>>),
              Some(trailingDataIndex), Null) >>
  \o (IF getUint16BE(bytes, trailingDataIndex) = 65517
      THEN << jpegItem(<<73, 78, 70, 79>>, Msg("the trailing data is likely Photoshop metadata (IRB)",
                                    <<>>), Null, Null) >>
      ELSE <<>>)

(* lines 164-198 once the first EOI was found at firstEoiIndex *)
JpegAfterEoi(all, found, firstEoiIndex) ==
  IF firstEoiIndex + 2 < Len(scanBytes)
  THEN IF firstEoiIndex + 4 > Len(scanBytes)
       THEN \* view.getUint16(trailingDataIndex) throws RangeError
            JpegRejects(all \o << eoiItem(firstEoiIndex),
                                  jpegItem(<<84, 82, 65, 73, 76, 73, 78, 71, 95, 68, 65, 84, 65>>,
                                           Msg("start of the trailing data", <<>>),
                                           Some(firstEoiIndex + 2), Null) >>,
                        found \cup {<<69, 79, 73>>})
       ELSE /\ metadata' = all \o << eoiItem(firstEoiIndex) >>
                             \o trailingItems(scanBytes, firstEoiIndex + 2)
            /\ foundKeys' = found \cup {<<69, 79, 73>>}
            /\ cursor' = firstEoiIndex + 2
            /\ spc' = "trailing"
            /\ UNCHANGED << errors, warnings, result >>
  ELSE JpegFinish(all \o << eoiItem(firstEoiIndex) >>, found \cup {<<69, 79, 73>>})

(* lines 156-198: the main scan ended with endOfScanIndex *)
JpegAfterMain(all, found, endOfScanIndex) ==
  IF eoiOffsets(scanBytes, endOfScanIndex) = {}
  THEN JpegFinish(all, found)
  ELSE JpegAfterEoi(all, found, least(eoiOffsets(scanBytes, endOfScanIndex)))

(* scan up to the first loop test of the main _scanSegment *)
JpegLoad ==
  /\ scanner = "Jpeg"
  /\ spc = "reading"
  /\ IF 0 < Len(scanBytes) - 1
     THEN /\ spc' = "loop"
          /\ UNCHANGED << cursor, metadata, errors, warnings, foundKeys, result >>
     ELSE JpegAfterMain(<<>>, {}, 0)
  /\ UNCHANGED << scanFormat, scanBytes, scanner, ifdCount, visited >>
  /\ UNCHANGED << vars, callVars, exifVars, ctlVars >>

(* one iteration of the loop of _scanSegment, in the main scan ("loop")    *)
(* or the scan of the trailing data ("trailing"), and what follows the     *)
(* loop when it ends                                                         *)
JpegSegmentStep(s) ==
  IF ~s.leaves /\ s.next < Len(scanBytes) - 1
  THEN /\ cursor' = s.next
       /\ metadata' = metadata \o s.push
       /\ foundKeys' = foundKeys \cup s.found
       /\ UNCHANGED << spc, errors, warnings, result >>
  ELSE IF spc = "loop"
  THEN JpegAfterMain(metadata \o s.push, foundKeys \cup s.found, s.next)
  ELSE JpegFinish(metadata \o s.push, foundKeys \cup s.found)

JpegSegment ==
  /\ scanner = "Jpeg"
  /\ spc \in {"loop", "trailing"}
  /\ visited' = Append(visited, cursor)
  /\ \E s \in { jpegIterationAt(scanBytes, cursor) } : JpegSegmentStep(s)
  /\ UNCHANGED << scanFormat, scanBytes, scanner, ifdCount >>
  /\ UNCHANGED << vars, callVars, exifVars, ctlVars >>

(* ---- reader.onerror of the scanners -------------------------------------- *)
(* the scanners whose onerror resolves { errors: [text], metadata: [],     *)
(* skipped: false }; _readFileAsBytes of the JPEG scanner resolves null    *)
(* and scan returns the same                                                *)
ResolvingOnError == {"Png", "Webp", "Gif", "Svg", "Jpeg"}

(* the read of the file fails.  The onerror of the other scanners names    *)
(* metadata, a constant of the onload function: a ReferenceError that      *)
(* nothing catches                                                           *)
ReaderError ==
  /\ spc = "reading"
  /\ IF scanner \in ResolvingOnError
     THEN Settle(<< MSG_READ_ERROR >>, <<>>, FALSE)
     ELSE /\ spc' = "uncaught in onerror"
          /\ UNCHANGED << errors, metadata, result >>
  /\ UNCHANGED << scanFormat, scanBytes, scanner, cursor, warnings, foundKeys,
                  ifdCount, visited >>
  /\ UNCHANGED << vars, callVars, exifVars, ctlVars >>

(* ---- buffers for the scanners --------------------------------------------- *)
(* a JPEG followed by an APP13 segment (Photoshop IRB) *)
SCAN_jpeg_irb ==
  SAMPLE_jpeg \o <<255, 237, 0, 4, 1, 2>>
(* a JPEG with exactly one byte after its EOI *)
SCAN_jpeg_one_trailing ==
  SAMPLE_jpeg \o <<0>>
(* a WebP whose ICCP chunk of 3 bytes precedes a VP8 chunk *)
SCAN_webp_odd_iccp ==
  <<82, 73, 70, 70, 28, 0, 0, 0, 87, 69, 66, 80, 73, 67, 67, 80, 3, 0, 0, 0, 1, 2, 3, 0, 86, 80, 56, 32, 4, 0, 0, 0, 1, 2, 3, 4>>
(* a WebP whose chunk runs past the file *)
SCAN_webp_bad_length ==
  <<82, 73, 70, 70, 144, 1, 0, 0, 87, 69, 66, 80, 69, 88, 73, 70, 44, 1, 0, 0, 1, 2, 3, 4>>
(* a GIF with a comment, a graphic control extension, an image and an unknown block *)
SCAN_gif_extensions ==
  <<71, 73, 70, 56, 57, 97, 3, 0, 2, 0, 0, 0, 0, 33, 254, 3, 97, 98, 99, 0, 33, 249, 4, 0, 0, 0, 0, 0, 44, 0, 0, 0, 0, 3, 0, 2, 0, 0, 2, 2, 76, 1, 0, 7, 59>>
(* a PNG with a tEXt chunk *)
SCAN_png_text ==
  PNG_SIG \o PNG_IHDR_CHUNK \o <<0, 0, 0, 5, 116, 69, 88, 116, 107, 0, 97, 98, 99, 1, 2, 3, 4>> \o PNG_IEND_CHUNK
(* an ftyp box and an ispe box that ends the file *)
SCAN_box_ispe ==
  <<0, 0, 0, 16, 102, 116, 121, 112, 97, 118, 105, 102, 0, 0, 0, 0, 0, 0, 0, 20, 105, 115, 112, 101, 0, 0, 0, 0, 0, 0, 0, 3, 0, 0, 0, 2>>
(* an ftyp box and an ispe box cut inside its width *)
SCAN_box_ispe_short ==
  <<0, 0, 0, 16, 102, 116, 121, 112, 97, 118, 105, 102, 0, 0, 0, 0, 0, 0, 0, 20, 105, 115, 112, 101, 0, 0, 0, 0, 0, 0, 3>>
(* an ftyp box and a box of size 0 *)
SCAN_box_size0 ==
  <<0, 0, 0, 16, 102, 116, 121, 112, 97, 118, 105, 102, 0, 0, 0, 0, 0, 0, 0, 0, 109, 100, 97, 116, 1, 2, 3>>
(* an ftyp box and a box of size 1 (64-bit size) *)
SCAN_box_size1 ==
  <<0, 0, 0, 16, 102, 116, 121, 112, 97, 118, 105, 102, 0, 0, 0, 0, 0, 0, 0, 1, 109, 100, 97, 116, 0, 0, 0, 0, 0, 0, 0, 9, 1>>
(* an ftyp box and a box whose size is below its header *)
SCAN_box_small ==
  <<0, 0, 0, 16, 102, 116, 121, 112, 97, 118, 105, 102, 0, 0, 0, 0, 0, 0, 0, 4, 102, 114, 101, 101, 1, 2, 3, 4, 5, 6>>
(* a JPEG 2000 signature and an ihdr box cut after its width *)
SCAN_jp2_ihdr_short ==
  <<0, 0, 0, 12, 106, 80, 32, 32, 13, 10, 135, 10, 0, 0, 0, 22, 105, 104, 100, 114, 0, 0, 0, 2, 0, 0, 0, 3>>
(* a TIFF whose only IFD names itself as the next IFD *)
SCAN_tiff_self ==
  <<73, 73, 42, 0, 8, 0, 0, 0, 0, 0, 8, 0, 0, 0>>
(* a TIFF whose second IFD points back to the first *)
SCAN_tiff_cycle ==
  <<73, 73, 42, 0, 8, 0, 0, 0, 0, 0, 14, 0, 0, 0, 0, 0, 8, 0, 0, 0>>
(* a TIFF with two IFDs *)
SCAN_tiff_two ==
  <<73, 73, 42, 0, 8, 0, 0, 0, 0, 0, 14, 0, 0, 0, 1, 0, 18, 1, 3, 0, 1, 0, 0, 0, 1, 0, 0, 0, 0, 0, 0, 0>>
(* a TIFF whose IFD declares 9 entries and holds one *)
SCAN_tiff_count ==
  <<73, 73, 42, 0, 8, 0, 0, 0, 9, 0, 0, 1, 3, 0, 1, 0, 0, 0, 3, 0, 0, 0, 0, 0, 0, 0>>
(* a TIFF whose first IFD lies beyond the file *)
SCAN_tiff_far ==
  <<73, 73, 42, 0, 40, 0, 0, 0>>
(* five bytes of an ICO header *)
SCAN_ico_short ==
  <<0, 0, 1, 0, 1>>
(* an ICO that declares two images and holds one entry *)
SCAN_ico_two ==
  <<0, 0, 1, 0, 2, 0, 0, 16, 0, 0, 1, 0, 32, 0, 4, 0, 0, 0, 38, 0, 0, 0, 1, 2, 3, 4>>
(* a BMP with a 40-byte info header, 8 bits per pixel *)
SCAN_bmp_full ==
  <<66, 77, 58, 0, 0, 0, 0, 0, 0, 0, 54, 0, 0, 0, 40, 0, 0, 0, 1, 0, 0, 0, 1, 0, 0, 0, 1, 0, 8, 0, 0, 0, 0, 0, 4, 0, 0, 0, 0, 0, 0, 0, 0, 0, 0, 0, 0, 0, 0, 0, 0, 0, 0, 0, 1, 2, 3, 4>>
(* a BMP of 55 bytes, 24 bits per pixel, unknown compression *)
SCAN_bmp_header ==
  <<66, 77, 58, 0, 0, 0, 0, 0, 0, 0, 54, 0, 0, 0, 40, 0, 0, 0, 1, 0, 0, 0, 1, 0, 0, 0, 1, 0, 24, 0, 9, 0, 0, 0, 4, 0, 0, 0, 0, 0, 0, 0, 0, 0, 0, 0, 0, 0, 0, 0, 0, 0, 0, 0, 1>>
(* an SVG with a script and a metadata element *)
SCAN_svg_script ==
  <<60, 115, 118, 103, 62, 60, 83, 67, 82, 73, 80, 84, 62, 120, 60, 47, 115, 99, 114, 105, 112, 116, 62, 60, 109, 101, 116, 97, 100, 97, 116, 97, 32, 105, 100, 61, 34, 109, 34, 62, 32, 104, 105, 32, 60, 47, 109, 101, 116, 97, 100, 97, 116, 97, 62, 60, 47, 115, 118, 103, 62>>

ScanFiles ==
  { SCAN_jpeg_irb,
    SCAN_jpeg_one_trailing,
    SCAN_webp_odd_iccp,
    SCAN_webp_bad_length,
    SCAN_gif_extensions,
    SCAN_png_text,
    SCAN_box_ispe,
    SCAN_box_ispe_short,
    SCAN_box_size0,
    SCAN_box_size1,
    SCAN_box_small,
    SCAN_jp2_ihdr_short,
    SCAN_tiff_self,
    SCAN_tiff_cycle,
    SCAN_tiff_two,
    SCAN_tiff_count,
    SCAN_tiff_far,
    SCAN_ico_short,
    SCAN_ico_two,
    SCAN_bmp_full,
    SCAN_bmp_header,
    SCAN_svg_script }

(* ---- the calls of the dispatcher ----------------------------------------- *)
ScanFormats == {Null} \cup { Some(f) : f \in Range(allFormats) \cup {"", "xyz"} }
(* the buffers handed to the scanners: those of FileBytes, and ScanFiles    *)
(* with up to MaxTrim bytes dropped                                          *)
ScanInputs ==
  FileBytes \cup UNION { { DropLast(b, k) : k \in 0..Min(MaxTrim, Len(b)) } : b \in ScanFiles }

ScanInit ==
  /\ scanFormat \in ScanFormats
  /\ scanBytes \in ScanInputs
  /\ scanner = "none"
  /\ spc = "idle"
  /\ cursor = 0
  /\ metadata = <<>>
  /\ errors = <<>>
  /\ warnings = <<>>
  /\ foundKeys = {}
  /\ ifdCount = 0
  /\ visited = <<>>
  /\ result = Null
  /\ AnalyzeIdle
  /\ CallIdle
  /\ ExifIdle
  /\ CtlIdle

ScanNext ==
  \/ Dispatch
  \/ PngLoad
  \/ PngChunk
  \/ WebpLoad
  \/ WebpChunk
  \/ GifLoad
  \/ GifBlock
  \/ AvifLoad
  \/ AvifBox
  \/ HeicLoad
  \/ HeicBox
  \/ Jp2Load
  \/ Jp2Box
  \/ TiffLoad
  \/ TiffIfd
  \/ IcoLoad
  \/ BmpLoad
  \/ SvgLoad
  \/ JpegLoad
  \/ JpegSegment
  \/ ReaderError

ScanSpec == ScanInit /\ [][ScanNext]_scanVars

(* ---- sfMetaScannerJpeg.extractExifData and analyzeExifData --------------- *)

(* an exifdata object: each tag is null (absent) or its value *)
Tags(latitude, longitude, comment, software) ==
  [ GPSLatitude |-> latitude, GPSLongitude |-> longitude,
    UserComment |-> comment, Software |-> software ]

(* {} *)
EmptyTags == Tags(Null, Null, Null, Null)

(* the tag sets the reader may find: GPS coordinates as degrees, minutes   *)
(* and seconds; a plain, an empty and a suspicious comment                 *)
TagSets ==
  { Tags(lat, lon, comment, software) :
      lat \in { Null, Some(<<37, 33, 59>>) },
      lon \in { Null, Some(<<126, 58, 4>>) },
      comment \in { Null, Some(<<>>), Some(<<104, 105>>), Some(<<60, 83, 67, 82, 73, 80, 84, 62, 120>>) },
      software \in { Null, Some(<<99, 97, 109>>) } }

(* what window.EXIF.getData does: it throws, it calls back before it       *)
(* returns (and may throw after that), it calls back later, or never       *)
Readers == { "throws", "sync", "sync then throws", "later", "never" }

(* a late reader may call back more than once *)
MaxCallbacks == 2

(* this.exifdata || {} *)
exifdataOrEmpty(tags) == IF IsNull(tags) THEN EmptyTags ELSE Get(tags)

(* Array.prototype.join(", ") on numbers *)
RECURSIVE joinNumbers(_)
joinNumbers(numbers) ==
  IF numbers = <<>> THEN <<>>
  ELSE IF Len(numbers) = 1 THEN decimal(numbers[1])
  ELSE decimal(numbers[1]) \o <<44, 32>> \o joinNumbers(Tail(numbers))

SUSPICIOUS_KEYWORDS == { <<60, 115, 99, 114, 105, 112, 116, 62>>, <<101, 118, 97, 108, 40>>, <<106, 97, 118, 97, 115, 99, 114, 105, 112, 116, 58>> }

(* isSuspiciousComment, lines 488-492 *)
isSuspiciousComment(comment) ==
  \E k \in SUSPICIOUS_KEYWORDS : occurrences(lowerText(comment), k) # {}

MSG_COMMENT == "security: UserComment may hold suspicious content"

(* a tag that is present and truthy: a non-empty string *)
truthyText(tag) == ~IsNull(tag) /\ Get(tag) # <<>>

exifGpsItems(exifData) ==
  IF ~IsNull(exifData.GPSLatitude) /\ ~IsNull(exifData.GPSLongitude)
  THEN << Item(<<71, 80, 83, 32, 76, 97, 116, 105, 116, 117, 100, 101>>, Msg("value", joinNumbers(Get(exifData.GPSLatitude)))),
          Item(<<71, 80, 83, 32, 76, 111, 110, 103, 105, 116, 117, 100, 101>>, Msg("value", joinNumbers(Get(exifData.GPSLongitude)))) >>
  ELSE <<>>

exifWarnings(exifData) ==
  (IF ~IsNull(exifData.GPSLatitude) /\ ~IsNull(exifData.GPSLongitude)
   THEN << Msg(MSG_GPS, <<>>) >> ELSE <<>>)
  \o (IF truthyText(exifData.UserComment) /\ isSuspiciousComment(Get(exifData.UserComment))
      THEN << Msg(MSG_COMMENT, <<>>) >> ELSE <<>>)

(* analyzeExifData, lines 458-486 *)
analyzeExifData(exifData) ==
  [ warnings |-> exifWarnings(exifData),
    metadata |->
      exifGpsItems(exifData)
      \o (IF truthyText(exifData.UserComment)
          THEN << Item(<<85, 115, 101, 114, 67, 111, 109, 109, 101, 110, 116>>, Msg("value", Get(exifData.UserComment))) >>
          ELSE <<>>)
      \o (IF truthyText(exifData.Software)
          THEN << Item(<<83, 111, 102, 116, 119, 97, 114, 101>>, Msg("value", Get(exifData.Software))) >>
          ELSE <<>>) ]

(* resolve(value): only the first call settles the promise *)
Resolve(value) ==
  /\ exifPromise' = IF IsNull(exifPromise)
                    THEN Some([state |-> "fulfilled", value |-> value])
                    ELSE exifPromise
  /\ resolveCalls' = resolveCalls + 1

(* the callback resolving whatever the flag says *)
callbackResolves_Always(flag) == TRUE

(* line 442: if (!resolved) *)
callbackResolves(flag) == ~flag

ExifInit ==
  /\ reader \in Readers
  /\ readerTags \in {Null} \cup { Some(t) : t \in TagSets }
  /\ epc = "idle"
  /\ resolved = FALSE
  /\ timerArmed = FALSE
  /\ exifPromise = Null
  /\ resolveCalls = 0
  /\ callbacks = 0
  /\ events = <<>>
  /\ exifResult = Null
  /\ AnalyzeIdle
  /\ CallIdle
  /\ ScanIdle
  /\ CtlIdle

(* the executor of lines 432-455: the timer is set, getData is called; a   *)
(* reader that throws or calls back at once settles the promise here       *)
ExtractExifData ==
  /\ epc = "idle"
  /\ epc' = "called"
  /\ IF reader = "throws"
     THEN /\ events' = << "throw" >>
          /\ timerArmed' = FALSE
          /\ resolved' = TRUE
          /\ Resolve(EmptyTags)
          /\ callbacks' = callbacks
     ELSE IF reader \in { "sync", "sync then throws" }
     THEN /\ events' = IF reader = "sync" THEN << "callback" >>
                       ELSE << "callback", "throw" >>
          /\ callbacks' = callbacks + 1
          \* the flag is still unset when the callback runs; the catch
          \* block of a reader that throws afterwards finds it set
          /\ timerArmed' = FALSE
          /\ resolved' = TRUE
          /\ Resolve(exifdataOrEmpty(readerTags))
     ELSE /\ events' = <<>>
          /\ timerArmed' = TRUE
          /\ resolved' = FALSE
          /\ UNCHANGED << exifPromise, resolveCalls, callbacks >>
  /\ UNCHANGED << reader, readerTags, exifResult >>
  /\ UNCHANGED << vars, callVars, scanVars, ctlVars >>

(* the callback of setTimeout, lines 435-440, after 2000 ms *)
TimerFires ==
  /\ epc # "idle"
  /\ timerArmed
  /\ timerArmed' = FALSE
  /\ events' = Append(events, "timer")
  /\ IF ~resolved
     THEN resolved' = TRUE /\ Resolve(EmptyTags)
     ELSE UNCHANGED << resolved, exifPromise, resolveCalls >>
  /\ UNCHANGED << reader, readerTags, epc, callbacks, exifResult >>
  /\ UNCHANGED << vars, callVars, scanVars, ctlVars >>

(* the reader calls the function given to getData, lines 442-448 *)
ReaderCallsBack ==
  /\ epc # "idle"
  /\ reader = "later"
  /\ callbacks < MaxCallbacks
  /\ callbacks' = callbacks + 1
  /\ events' = Append(events, "callback")
  /\ IF callbackResolves(resolved)
     THEN /\ timerArmed' = FALSE
          /\ resolved' = TRUE
          /\ Resolve(exifdataOrEmpty(readerTags))
     ELSE UNCHANGED << timerArmed, resolved, exifPromise, resolveCalls >>
  /\ UNCHANGED << reader, readerTags, epc, exifResult >>
  /\ UNCHANGED << vars, callVars, scanVars, ctlVars >>

(* _analyzeJPEG_EXIF after its await, lines 426-427 *)
AnalyzeExif ==
  /\ epc = "called"
  /\ ~IsNull(exifPromise)
  /\ epc' = "analysed"
  /\ exifResult' = Some(analyzeExifData(Get(exifPromise).value))
  /\ UNCHANGED << reader, readerTags, resolved, timerArmed, exifPromise,
                  resolveCalls, callbacks, events >>
  /\ UNCHANGED << vars, callVars, scanVars, ctlVars >>

ExifNext == ExtractExifData \/ TimerFires \/ ReaderCallsBack \/ AnalyzeExif

(* the call is made, a timer that is set fires, and the continuation of an *)
(* await on a settled promise runs; nothing makes the reader call back     *)
ExifSpec ==
  /\ ExifInit
  /\ [][ExifNext]_exifVars
  /\ WF_exifVars(ExtractExifData)
  /\ WF_exifVars(TimerFires)
  /\ WF_exifVars(AnalyzeExif)

(* ---- sfImageSanitizer: handleFiles, processFileQueue and the two steps --- *)

(* a JPEG with SOI, APP0, SOS and EOI and no SOF0 segment *)
CTL_jpeg_no_sof ==
  <<255, 216, 255, 224, 0, 7, 74, 70, 73, 70, 0, 255, 218, 0, 8, 1, 1, 0, 0, 63, 0, 18, 52, 255, 217>>
(* the sample JPEG without its last two bytes, the EOI marker *)
CTL_jpeg_no_eoi == DropLast(SAMPLE_jpeg, 2)
(* a TIFF header cut after six bytes *)
CTL_tiff_short == <<73, 73, 42, 0, 8, 0>>
(* a PNG that ends after its IHDR chunk *)
CTL_png_no_iend == PNG_SIG \o PNG_IHDR_CHUNK

(* a File whose stream delivers chunks of the given size *)
CtlFileIn(name, bytes, chunkSize) ==
  [ name |-> name, bytes |-> bytes, size |-> Len(bytes), chunkSize |-> chunkSize,
    hasStream |-> TRUE ]

(* a File that is read in one chunk *)
CtlFile(name, bytes) == CtlFileIn(name, bytes, BigChunk)

CtlFiles ==
  { CtlFileIn(<<"photo", "jpg">>, CTL_png_no_iend, MidChunk),
    CtlFile(<<"photo", "png">>, CTL_png_no_iend),
    CtlFile(<<"photo", "jpg">>, SAMPLE_jpeg),
    CtlFile(<<"photo", "jpg">>, CTL_jpeg_no_sof),
    CtlFile(<<"photo", "png">>, CTL_jpeg_no_eoi),
    CtlFile(<<"photo", "tif">>, CTL_tiff_short),
    CtlFile(<<"photo", "tif">>, SCAN_tiff_count),
    CtlFile(<<"drawing", "svg">>, SCAN_svg_script) }

(* the files given to handleFiles over a run, and to one call *)
MaxHandled == 2
MaxBatch   == 2

Batches == UNION { [1..n -> CtlFiles] : n \in 1..MaxBatch }

(* one entry of context.reasons: where it came from and the text *)
Reason(from, what) == [from |-> from, what |-> what]

(* lines 3532-3539; verdict, received and scanResult keep what the two     *)
(* steps returned                                                          *)
NewContext(currentFile) ==
  [ file |-> currentFile, isSafe |-> TRUE, hasWarnings |-> FALSE, reasons |-> <<>>,
    formatResult |-> Null, correctedFileName |-> Null,
    verdict |-> Null, received |-> <<>>, scanResult |-> Null ]

(* _getCorrectedFileName, lines 3614-3618: the last part of the name is    *)
(* replaced by the format                                                  *)
getCorrectedFileName(originalName, newFormat) ==
  IF Len(originalName) <= 1 THEN << "", newFormat >>
  ELSE Append(SubSeq(originalName, 1, Len(originalName) - 1), newFormat)

(* lines 3364-3366: !result.isExtensionValid && result.detectedFormat *)
isMismatch(formatVerdict) ==
  ~Truthy(formatVerdict.isExtensionValid) /\ ~IsNull(formatVerdict.detectedFormat)

(* processResult of the first step, lines 3337-3386 (no verdict of the     *)
(* analyzer has a structuralVerificationWarning)                           *)
formatProcessResult(formatVerdict, chunks, context, autoConvert) ==
  IF formatVerdict.isValid
  THEN [ context EXCEPT !.formatResult = Some(formatVerdict),
                        !.verdict = Some(formatVerdict), !.received = chunks ]
  ELSE IF isMismatch(formatVerdict) /\ autoConvert
  THEN [ context EXCEPT !.formatResult = Some([formatVerdict EXCEPT !.isValid = TRUE]),
                        !.verdict = Some(formatVerdict), !.received = chunks,
                        !.correctedFileName =
                          Some(getCorrectedFileName(context.file.name,
                                                    Get(formatVerdict.detectedFormat))),
                        !.hasWarnings = TRUE ]
  ELSE [ context EXCEPT !.formatResult = Some(formatVerdict),
                        !.verdict = Some(formatVerdict), !.received = chunks,
                        !.isSafe = FALSE,
                        !.reasons = Append(@, Reason("format", formatVerdict.reason)) ]

(* the set without SOF0 *)
jpegCriticalMarkers_NoSof == { <<83, 79, 73>>, <<83, 79, 83>>, <<69, 79, 73>> }

(* line 3318 *)
jpegCriticalMarkers == { <<83, 79, 73>>, <<83, 79, 70, 48>>, <<83, 79, 83>>, <<69, 79, 73>> }

(* lines 3404-3414: a reason for each missing critical marker, in order *)
RECURSIVE missingReasons(_)
missingReasons(items) ==
  IF items = <<>> THEN <<>>
  ELSE (IF Head(items).isMissing /\ Head(items).key \in jpegCriticalMarkers
        THEN << Reason("missing marker", Head(items).key) >> ELSE <<>>)
       \o missingReasons(Tail(items))

listOf(optional) == IF IsNull(optional) THEN <<>> ELSE Get(optional)

asReasons(from, texts) == [k \in 1..Len(texts) |-> Reason(from, texts[k])]

(* processResult of the second step, lines 3397-3456 *)
metadataProcessResult(scanResult, context) ==
  IF scanResult.skipped
  THEN [ context EXCEPT !.scanResult = Some(scanResult) ]
  ELSE [ context EXCEPT
           !.scanResult = Some(scanResult),
           !.isSafe = @ /\ missingReasons(scanResult.metadata) = <<>>
                        /\ scanResult.errors = <<>>,
           !.hasWarnings = @ \/ listOf(scanResult.warnings) # <<>>,
           !.reasons = @ \o missingReasons(scanResult.metadata)
                         \o asReasons("warning", listOf(scanResult.warnings))
                         \o asReasons("error", scanResult.errors) ]

(* the catch block of lines 3555-3563 *)
stepThrew(context, message) ==
  [ context EXCEPT !.isSafe = FALSE,
                   !.reasons = Append(@, Reason("exception", message)) ]

(* lines 3567-3597: what is shown for the file *)
finalEntry(context) ==
  [ file |-> context.file,
    state |-> IF context.isSafe
              THEN (IF context.hasWarnings THEN "warning" ELSE "success")
              ELSE "error",
    downloadName |-> IF ~context.isSafe THEN Null
                     ELSE IF IsNull(context.correctedFileName)
                     THEN Some(context.file.name)
                     ELSE context.correctedFileName,
    context |-> context ]

(* a new call of sfFileFormatAnalyzer.analyze: its locals, lines 38-60 *)
FreshAnalysis_KeepsFormat(currentFile) ==
  /\ file' = currentFile
  /\ onProgress' = TRUE
  /\ pc' = "idle"
  /\ finalFileBytes' = <<>>
  /\ bytesRead' = 0
  /\ UNCHANGED << firstChunk, detectedFormatInfo >>
  /\ dimensions' = Null
  /\ extension' = ""
  /\ reads' = 0
  /\ cancelled' = FALSE
  /\ failure' = Null
  /\ received' = <<>>
  /\ progress' = <<>>
  /\ calls' = NoCalls
  /\ invoked' = <<>>
  /\ verified' = Null
  /\ verdict' = Null
  /\ rejection' = Null

FreshAnalysis(currentFile) ==
  /\ file' = currentFile
  /\ onProgress' = TRUE
  /\ pc' = "idle"
  /\ finalFileBytes' = <<>>
  /\ bytesRead' = 0
  /\ firstChunk' = Null
  /\ detectedFormatInfo' = Null
  /\ dimensions' = Null
  /\ extension' = ""
  /\ reads' = 0
  /\ cancelled' = FALSE
  /\ failure' = Null
  /\ received' = <<>>
  /\ progress' = <<>>
  /\ calls' = NoCalls
  /\ invoked' = <<>>
  /\ verified' = Null
  /\ verdict' = Null
  /\ rejection' = Null

(* a new call of sfMetadataAnalyzer.analyze(file, format) *)
FreshScan(detectedFormat, bytes) ==
  /\ scanFormat' = detectedFormat
  /\ scanBytes' = bytes
  /\ scanner' = "none"
  /\ spc' = "idle"
  /\ cursor' = 0
  /\ metadata' = <<>>
  /\ errors' = <<>>
  /\ warnings' = <<>>
  /\ foundKeys' = {}
  /\ ifdCount' = 0
  /\ visited' = <<>>
  /\ result' = Null

(* line 3518: fileQueue.shift() *)
shift(queue) == [ head |-> Head(queue), rest |-> Tail(queue) ]

(* the while test of line 3517 on the queue: the next file is taken and    *)
(* its first step called (lines 3518-3551), or the loop ends (line 3600)   *)
LoopTest(queue, done, running) ==
  IF Len(queue) > 0
  THEN /\ fileQueue' = shift(queue).rest
       /\ processedFiles' = done + 1
       /\ analysisContext' = Some(NewContext(shift(queue).head))
       /\ cpc' = "format"
       /\ isAnalyzing' = TRUE
       /\ loops' = running
       /\ FreshAnalysis(shift(queue).head)
  ELSE /\ fileQueue' = queue
       /\ processedFiles' = done
       /\ analysisContext' = Null
       /\ cpc' = "idle"
       /\ isAnalyzing' = FALSE
       /\ loops' = running - 1
       /\ UNCHANGED vars

(* lines 3565-3598 for the file, then the loop test *)
Finish(context) ==
  /\ finalStates' = Append(finalStates, finalEntry(context))
  /\ LoopTest(fileQueue, processedFiles, loops)
  /\ UNCHANGED << autoConvertFormat, totalFiles, accepted, handled >>

(* no handler is running: every promise that is awaited is pending *)
BetweenEvents ==
  \/ cpc = "idle"
  \/ cpc = "format" /\ pc \in {"awaitRead", "awaitCancel"}
  \/ cpc = "metadata" /\ spc \in {"reading", "uncaught", "uncaught in onerror"}

CtlInit ==
  /\ autoConvertFormat \in BOOLEAN
  /\ isAnalyzing = FALSE
  /\ fileQueue = <<>>
  /\ totalFiles = 0
  /\ processedFiles = 0
  /\ cpc = "idle"
  /\ analysisContext = Null
  /\ finalStates = <<>>
  /\ accepted = 0
  /\ loops = 0
  /\ handled = 0
  /\ AnalyzeIdle
  /\ CallIdle
  /\ ScanIdle
  /\ ExifIdle

(* handleFiles(files), lines 3506-3513, with reset (3628-3634) and the     *)
(* start of processFileQueue (3515-3551) when no analysis is under way     *)
HandleFiles ==
  /\ BetweenEvents
  /\ \E files \in Batches :
       /\ handled + Len(files) <= MaxHandled
       /\ handled' = handled + Len(files)
       /\ IF ~isAnalyzing
          THEN /\ finalStates' = <<>>
               /\ accepted' = Len(files)
               /\ totalFiles' = Len(files)
               /\ LoopTest(files, 0, loops + 1)
          ELSE /\ fileQueue' = fileQueue \o files
               /\ totalFiles' = Len(fileQueue \o files)
               /\ accepted' = accepted + Len(files)
               /\ UNCHANGED << isAnalyzing, processedFiles, cpc, analysisContext,
                               finalStates, loops >>
               /\ UNCHANGED vars
  /\ UNCHANGED autoConvertFormat
  /\ UNCHANGED << callVars, scanVars, exifVars >>

(* the first step resolved: processResult, then the second step is called  *)
(* (lines 3541-3551) or the file is finished                               *)
FormatDone ==
  /\ cpc = "format"
  /\ pc = "resolved"
  /\ \E context \in { formatProcessResult(Get(verdict), received,
                                          Get(analysisContext), autoConvertFormat) } :
       IF context.isSafe /\ Get(context.formatResult).isValid
       THEN /\ analysisContext' = Some(context)
            /\ cpc' = "metadata"
            /\ FreshScan(Get(context.formatResult).detectedFormat, file.bytes)
            /\ UNCHANGED << autoConvertFormat, isAnalyzing, fileQueue, totalFiles,
                            processedFiles, finalStates, accepted, loops, handled >>
            /\ UNCHANGED vars
       ELSE /\ Finish(context)
            /\ UNCHANGED scanVars
  /\ UNCHANGED << callVars, exifVars >>

(* the first step rejected: the catch block, then the file is finished *)
FormatRejects ==
  /\ cpc = "format"
  /\ pc = "rejected"
  /\ Finish(stepThrew(Get(analysisContext), rejection))
  /\ UNCHANGED << callVars, scanVars, exifVars >>

(* the second step resolved: processResult, then the file is finished *)
MetadataDone ==
  /\ cpc = "metadata"
  /\ spc = "resolved"
  /\ Finish(metadataProcessResult(Get(result), Get(analysisContext)))
  /\ UNCHANGED << callVars, scanVars, exifVars >>

(* the controller with the analyzer and the scanners of the formats of its *)
(* files; a step runs only while the controller awaits it.  No file of     *)
(* CtlFiles has an unsupported format (reader.cancel) or makes the JPEG    *)
(* scan reject                                                             *)
CtlNext ==
  \/ HandleFiles
  \/ FormatDone
  \/ FormatRejects
  \/ MetadataDone
  \/ cpc = "format" /\ Analyze
  \/ cpc = "format" /\ ReadChunk
  \/ cpc = "format" /\ ReadRejects
  \/ cpc = "metadata" /\ Dispatch
  \/ cpc = "metadata" /\ PngLoad
  \/ cpc = "metadata" /\ PngChunk
  \/ cpc = "metadata" /\ JpegLoad
  \/ cpc = "metadata" /\ JpegSegment
  \/ cpc = "metadata" /\ TiffLoad
  \/ cpc = "metadata" /\ TiffIfd
  \/ cpc = "metadata" /\ SvgLoad
  \/ cpc = "metadata" /\ ReaderError

allVars == << vars, scanVars, ctlVars >>

CtlSpec == CtlInit /\ [][CtlNext]_allVars

(* the event loop runs every continuation and every handler that is ready; *)
(* nothing makes the user give more files                                  *)
CtlSteps ==
  \/ FormatDone
  \/ FormatRejects
  \/ MetadataDone
  \/ cpc = "format" /\ (Analyze \/ ReadChunk \/ ReadRejects)
  \/ cpc = "metadata" /\ (Dispatch \/ PngLoad \/ PngChunk \/ JpegLoad \/ JpegSegment
                             \/ TiffLoad \/ TiffIfd \/ SvgLoad \/ ReaderError)

CtlFairSpec == CtlSpec /\ WF_allVars(CtlSteps)

(***************************************************************************)
(* Properties of the dispatcher and the scanners                           *)
(***************************************************************************)
(* the scanner of each of the 12 format names *)
OwnScanner ==
  [ png |-> "Png", apng |-> "Png", jpeg |-> "Jpeg", gif |-> "Gif", webp |-> "Webp",
    svg |-> "Svg", bmp |-> "Bmp", ico |-> "Ico", tiff |-> "Tiff", jpeg2000 |-> "Jp2",
    avif |-> "Avif", heic |-> "Heic" ]

(* C14: the dispatcher is total. Once analyze was called, each of the 12   *)
(* format names is routed to its own scanner (apng to the PNG scanner),    *)
(* and any other value, null included, has got a result with skipped =     *)
(* true, a reason, no error and no metadata; the call threw nothing        *)
C14_DispatcherTotal ==
  spc # "idle" =>
    IF ~IsNull(scanFormat) /\ Get(scanFormat) \in DOMAIN OwnScanner
    THEN scanner = OwnScanner[Get(scanFormat)]
    ELSE /\ scanner = "none"
         /\ spc = "resolved"
         /\ ~IsNull(result)
         /\ Get(result).skipped = TRUE
         /\ ~IsNull(Get(result).reason)
         /\ Get(result).errors = <<>>
         /\ Get(result).metadata = <<>>

(* analyze was called with "apng" and the PNG scanner reads the file *)
C14_Witness ==
  /\ scanFormat = Some("apng")
  /\ scanner = "Png"
  /\ spc = "reading"

(* the offset after the chunk at i: 8 bytes of header, the payload, and    *)
(* one byte more after an odd payload                                       *)
PaddedEnd(bytes, i) ==
  i + 8 + getUint32LE(bytes, i + 4) + (getUint32LE(bytes, i + 4) % 2)

(* C19: in the WebP chunk walk the chunk after the one at i with payload N *)
(* is taken at i+8+N for an even N and at i+8+N+1 for an odd N, and every  *)
(* chunk is recorded under the four bytes found at its offset              *)
C19_OddPadding ==
  scanner = "Webp" =>
    /\ \A k \in 1..Len(visited) :
         /\ Len(metadata) > k
         /\ metadata[k + 1].key = decode(slice(scanBytes, visited[k], visited[k] + 4))
    /\ \A k \in 1..(Len(visited) - 1) : visited[k + 1] = PaddedEnd(scanBytes, visited[k])
    /\ (spc = "loop" /\ visited # <<>>) =>
         cursor = PaddedEnd(scanBytes, visited[Len(visited)])

(* the scan of the file whose ICCP chunk of 3 bytes precedes VP8 is over:  *)
(* both chunks were recorded, at 12 and at 24                               *)
C19_Witness ==
  /\ scanner = "Webp"
  /\ scanBytes = SCAN_webp_odd_iccp
  /\ spc = "resolved"
  /\ visited = <<12, 24>>
  /\ [k \in 1..Len(metadata) |-> metadata[k].key] = << <<82, 73, 70, 70, 47, 87, 69, 66, 80>>, <<73, 67, 67, 80>>, <<86, 80, 56, 32>> >>
  /\ errors = <<>>

(* C15: every ScanResult the dispatcher or a scanner returns with skipped  *)
(* = true has an empty errors list and an empty metadata list              *)
C15_SkippedIsEmpty ==
  (~IsNull(result) /\ Get(result).skipped = TRUE) =>
    (Get(result).errors = <<>> /\ Get(result).metadata = <<>>)

(* the TIFF scanner resolved, for a buffer of fewer than 8 bytes, a result *)
(* with skipped = true that carries an error                                *)
C15_Witness ==
  /\ scanner = "Tiff"
  /\ Len(scanBytes) < 8
  /\ spc = "resolved"
  /\ Get(result).skipped = TRUE
  /\ Get(result).errors = << Msg(MSG_TIFF_SMALL, <<>>) >>

(* C18: the IFD loop of the TIFF scanner ends for every buffer.  Between   *)
(* two iterations the loop keeps nothing but the offset of the next IFD,   *)
(* so it ends exactly if it never enters an offset it has entered before   *)
C18_IfdLoopEnds ==
  scanner = "Tiff" =>
    \A j, k \in 1..Len(visited) : j # k => visited[j] # visited[k]

(* the IFD at 8 names itself as the next IFD: it was entered twice and is  *)
(* about to be entered again                                                 *)
C18_Witness ==
  /\ scanner = "Tiff"
  /\ scanBytes = SCAN_tiff_self
  /\ spc = "loop"
  /\ visited = <<8, 8>>
  /\ cursor = 8

(* C16: whatever the bytes of the buffer, truncated and malformed ones     *)
(* included, no scanner reads outside the buffer and no exception escapes  *)
(* it: the handler of the loaded buffer is never left by a RangeError      *)
(* (which leaves the promise unsettled, or rejects the promise of the       *)
(* async JPEG scan)                                                          *)
C16_NoExceptionEscapes ==
  spc \notin {"uncaught", "rejected"}

(* the JPEG scan of a buffer with exactly one byte after its EOI rejected: *)
(* TRAILING_DATA was pushed and the 16-bit read at the last byte threw      *)
C16_Witness ==
  /\ scanner = "Jpeg"
  /\ scanBytes = SCAN_jpeg_one_trailing
  /\ spc = "rejected"
  /\ IsNull(result)
  /\ metadata[Len(metadata)].key = <<84, 82, 65, 73, 76, 73, 78, 71, 95, 68, 65, 84, 65>>

(* the walkers with a cursor, and the offset a PNG chunk, a WebP chunk or  *)
(* a box at i gives for the next one                                        *)
CursorWalkers == {"Png", "Webp", "Gif", "Jpeg", "Jp2", "Avif", "Heic"}
InLoop == spc \in {"loop", "trailing"}
NextOffset(i) ==
  CASE scanner = "Png" -> i + 12 + getUint32BE(scanBytes, i)
    [] scanner = "Webp" -> PaddedEnd(scanBytes, i)
    [] OTHER -> i + getUint32BE(scanBytes, i)
HaltsTheWalk(i) ==
  CASE scanner = "Png" ->
         /\ i + 8 <= Len(scanBytes)
         /\ decode(slice(scanBytes, i + 4, i + 8)) # <<73, 69, 78, 68>>
         /\ (NextOffset(i) <= i \/ NextOffset(i) > Len(scanBytes))
    [] scanner \in {"Webp", "Jp2", "Avif", "Heic"} ->
         NextOffset(i) <= i \/ NextOffset(i) > Len(scanBytes)
    [] OTHER -> FALSE

(* C17, first part: in the PNG, WebP, GIF, JPEG, JPEG 2000, AVIF and HEIC  *)
(* scanners every iteration starts at a larger offset than the one before, *)
(* inside the buffer, so the loops end                                      *)
C17_CursorIncreases ==
  scanner \in CursorWalkers =>
    /\ \A k \in 1..(Len(visited) - 1) : visited[k] < visited[k + 1]
    /\ \A k \in 1..Len(visited) : visited[k] < Len(scanBytes)
    /\ (InLoop /\ visited # <<>>) => cursor > visited[Len(visited)]
    /\ InLoop => cursor < Len(scanBytes)

(* C17, second part: in the PNG, WebP and box walkers an iteration whose   *)
(* next offset does not advance or lies beyond the buffer is the last one, *)
(* and the scan resolves with exactly one error                             *)
C17_BadOffsetHalts ==
  (visited # <<>> /\ HaltsTheWalk(visited[Len(visited)])) =>
    /\ spc = "resolved"
    /\ Len(errors) = 1

(* C17: both parts *)
C17_ForwardProgress ==
  C17_CursorIncreases /\ C17_BadOffsetHalts

(* the AVIF walk met an ispe box whose declared end lies beyond the        *)
(* buffer: it was left by a RangeError with no error recorded               *)
C17_Witness ==
  /\ scanner = "Avif"
  /\ scanBytes = SCAN_box_ispe_short
  /\ visited = <<0, 16>>
  /\ HaltsTheWalk(16)
  /\ spc = "uncaught"
  /\ errors = <<>>

(* the SOS items of a metadata list, the end of the first SOS segment, and *)
(* the first FF D9 at or after it                                           *)
SosItems(meta) ==
  { k \in 1..Len(meta) :
      meta[k].key = <<83, 79, 83>> /\ ~IsNull(meta[k].offset) /\ ~IsNull(meta[k].length) }
FirstSos(meta) ==
  CHOOSE k \in SosItems(meta) :
    \A j \in SosItems(meta) : Get(meta[k].offset) <= Get(meta[j].offset)
SosEnd(meta) == Get(meta[FirstSos(meta)].offset) + Get(meta[FirstSos(meta)].length)
EoiAfter(from) ==
  { i \in from..(Len(scanBytes) - 2) : scanBytes[i + 1] = 255 /\ scanBytes[i + 2] = 217 }
FirstEoi == least(EoiAfter(SosEnd(metadata)))
HasTrailingBytes ==
  /\ SosItems(metadata) # {}
  /\ EoiAfter(SosEnd(metadata)) # {}
  /\ FirstEoi + 2 < Len(scanBytes)

(* C20: when at least one byte follows the first EOI after the SOS segment,*)
(* the JPEG scan ends with a result that has a TRAILING_DATA item at the   *)
(* offset of that EOI + 2; the second walk ran from there, the markers it  *)
(* found are in the found-set, and errors is empty                          *)
C20_TrailingData ==
  (scanner = "Jpeg" /\ spc \in {"resolved", "rejected"} /\ HasTrailingBytes) =>
    /\ spc = "resolved"
    /\ Get(result).errors = <<>>
    /\ \E k \in 1..Len(Get(result).metadata) :
         /\ Get(result).metadata[k].key = <<84, 82, 65, 73, 76, 73, 78, 71, 95, 68, 65, 84, 65>>
         /\ Get(result).metadata[k].offset = Some(FirstEoi + 2)
    /\ \E k \in 1..Len(visited) : visited[k] = FirstEoi + 2
    /\ \A k \in 1..Len(metadata) :
         (/\ ~IsNull(metadata[k].offset)
          /\ Get(metadata[k].offset) >= FirstEoi + 2
          /\ \E c \in JPEG_MARKER_CODES : jpegAbbr(c) = metadata[k].key)
         => metadata[k].key \in foundKeys

(* one byte follows the EOI at 36 of a 39-byte JPEG: the scan rejected     *)
(* and there is no result                                                    *)
C20_Witness ==
  /\ scanner = "Jpeg"
  /\ Len(scanBytes) = 39
  /\ HasTrailingBytes
  /\ FirstEoi = 36
  /\ spc = "rejected"
  /\ IsNull(result)

(* ---- a buffer too short for a signature ---- *)

(* the signature comparisons the format checkers make: bytes and offset *)
SignatureChecks ==
  { [bytes |-> PNG_SIG, offset |-> 0], [bytes |-> JPEG_SIG, offset |-> 0],
    [bytes |-> GIF_SIG, offset |-> 0], [bytes |-> RIFF, offset |-> 0],
    [bytes |-> WEBP, offset |-> 8], [bytes |-> BMP_SIG, offset |-> 0],
    [bytes |-> ICO_SIG, offset |-> 0], [bytes |-> TIFF_LE, offset |-> 0],
    [bytes |-> TIFF_BE, offset |-> 0], [bytes |-> JP2_SIG, offset |-> 0],
    [bytes |-> FTYP, offset |-> 4] }

(* at least one byte and fewer than eight, all of them the signature's *)
IsTruncatedPngSignature(bytes) ==
  /\ Len(bytes) > 0
  /\ Len(bytes) < Len(PNG_SIG)
  /\ bytes = SubSeq(PNG_SIG, 1, Len(bytes))

(* C25: _checkBytes is false for every signature that does not fit in the  *)
(* chunk it is given, and a first chunk that holds only the beginning of   *)
(* the PNG signature matches no format: getFormat returns null and the     *)
(* verdict has no detected format and the unsupported-format reason        *)
C25_TruncatedSignature ==
  /\ \A k \in 1..Len(received) : \A c \in SignatureChecks :
       Len(received[k]) < c.offset + Len(c.bytes)
         => ~checkBytes(received[k], c.bytes, c.offset)
  /\ (~IsNull(firstChunk) /\ IsTruncatedPngSignature(Get(firstChunk)))
       => /\ \A f \in Range(allFormats) : IsNull(formatCheckers(f, Get(firstChunk)))
          /\ IsNull(getFormat(Get(firstChunk), extension))
          /\ IsNull(detectedFormatInfo)
          /\ Resolved => /\ IsNull(Verdict.detectedFormat)
                         /\ Verdict.reason = Some(REASON_UNSUPPORTED)
                         /\ ~Verdict.isValid

C25_Witness ==
  /\ Resolved
  /\ ~IsNull(firstChunk)
  /\ IsTruncatedPngSignature(Get(firstChunk))
  /\ IsNull(Verdict.detectedFormat)

(* ---- the <script finding of the SVG scanner ---- *)

SCRIPT_TAG == <<60, 115, 99, 114, 105, 112, 116>>

(* the text holds <script at some position, in any mix of cases *)
HasScriptTag(text) ==
  \E p \in 1..(Len(text) - Len(SCRIPT_TAG) + 1) :
    \A k \in 1..Len(SCRIPT_TAG) : toLowerCase(text[p + k - 1]) = SCRIPT_TAG[k]

SvgSettled == scanner = "Svg" /\ spc = "resolved" /\ ~IsNull(result)

(* C27 as the specification states it: when the text was read, <script is  *)
(* reported in the warnings list and the errors list stays empty           *)
C27_ScriptIsWarning ==
  [][SvgLoad =>
       /\ Get(result').errors = <<>>
       /\ HasScriptTag(decode(scanBytes))
            => /\ ~IsNull(Get(result').warnings)
               /\ Get(Get(result').warnings) # <<>>
       /\ ~HasScriptTag(decode(scanBytes))
            => (IsNull(Get(result').warnings) \/ Get(Get(result').warnings) = <<>>)
    ]_scanVars

(* C27, amended: when the text was read, the SVG result has no warnings    *)
(* list; <script in the lowercased text is reported as the one entry of    *)
(* the errors list, and nothing is reported when it is absent              *)
C27_ScriptIsError ==
  [][SvgLoad =>
       /\ IsNull(Get(result').warnings)
       /\ ~Get(result').skipped
       /\ Get(result').errors =
            IF HasScriptTag(decode(scanBytes))
            THEN << Msg(MSG_SVG_SCRIPT, <<>>) >> ELSE <<>>
    ]_scanVars

C27_Witness ==
  /\ SvgSettled
  /\ HasScriptTag(decode(scanBytes))
  /\ occurrences(decode(scanBytes), SCRIPT_TAG) = {}
  /\ Get(result).errors = << Msg(MSG_SVG_SCRIPT, <<>>) >>

(* ---- the box walks of the AVIF and HEIC scanners side by side ---- *)

(* what a walk leaves behind: the offsets visited, the box types pushed as *)
(* keys, the errors, and how the onload handler ended                      *)
Walk(offsets, keys, errs, end) ==
  [visited |-> offsets, keys |-> keys, errors |-> errs, spc |-> end]

(* the loop of sfMetaScannerAvif.scan from offset i on *)
RECURSIVE avifWalk(_, _, _, _)
avifWalk(bytes, i, offsets, keys) ==
  IF ~(i < Len(bytes) - 8)
  THEN Walk(offsets, keys, <<>>, "resolved")
  ELSE LET boxSize == getUint32BE(bytes, i)
           boxType == decode(slice(bytes, i + 4, i + 8))
           seen    == Append(offsets, i)
           pushed  == Append(keys, boxType)
       IN  IF boxType = <<105, 115, 112, 101>> /\ boxSize >= 16 /\ i + 16 > Len(bytes)
           THEN Walk(seen, pushed, <<>>, "uncaught")
           ELSE IF boxSize = 0
           THEN Walk(seen, pushed, <<>>, "resolved")
           ELSE IF boxSize = 1
           THEN IF i + 16 > Len(bytes)
                THEN Walk(seen, pushed, <<>>, "resolved")
                ELSE Walk(seen, pushed, << Msg(MSG_BOX_64BIT, boxType) >>, "resolved")
           ELSE IF i + boxSize <= i \/ i + boxSize > Len(bytes)
           THEN Walk(seen, pushed, << Msg(MSG_BOX_SIZE, boxType) >>, "resolved")
           ELSE avifWalk(bytes, i + boxSize, seen, pushed)

(* the loop of sfMetaScannerHeic.scan from offset i on *)
RECURSIVE heicWalk(_, _, _, _)
heicWalk(bytes, i, offsets, keys) ==
  IF ~(i < Len(bytes) - 8)
  THEN Walk(offsets, keys, <<>>, "resolved")
  ELSE LET boxSize == getUint32BE(bytes, i)
           boxType == decode(slice(bytes, i + 4, i + 8))
           seen    == Append(offsets, i)
           pushed  == Append(keys, boxType)
       IN  IF boxType = <<105, 115, 112, 101>> /\ boxSize >= 16 /\ i + 16 > Len(bytes)
           THEN Walk(seen, pushed, <<>>, "uncaught")
           ELSE IF boxSize = 0
           THEN Walk(seen, pushed, <<>>, "resolved")
           ELSE IF boxSize = 1
           THEN Walk(seen, pushed, << Msg(MSG_BOX_64BIT, boxType) >>, "resolved")
           ELSE IF i + boxSize <= i \/ i + boxSize > Len(bytes)
           THEN Walk(seen, pushed, << Msg(MSG_BOX_SIZE, boxType) >>, "resolved")
           ELSE heicWalk(bytes, i + boxSize, seen, pushed)

(* the walk the scan under way has made, read off its state *)
WalkMade ==
  Walk(visited, [k \in 1..Len(metadata) |-> metadata[k].key], errors, spc)

BoxWalkEnded ==
  /\ scanner \in {"Avif", "Heic"}
  /\ spc \in {"resolved", "uncaught"}
  /\ errors # << MSG_READ_ERROR >>

(* the walk of each scanner, step by step, is the walk computed at once *)
BoxWalksAgree ==
  BoxWalkEnded =>
    WalkMade = IF scanner = "Avif" THEN avifWalk(scanBytes, 0, <<>>, <<>>)
               ELSE heicWalk(scanBytes, 0, <<>>, <<>>)

(* C26: on the same bytes the AVIF and the HEIC scanner visit the same box *)
(* offsets, push the same box types, stop at the same box and report an    *)
(* error in the same cases                                                  *)
C26_SameBoxWalk ==
  /\ BoxWalksAgree
  /\ BoxWalkEnded =>
       WalkMade = IF scanner = "Avif" THEN heicWalk(scanBytes, 0, <<>>, <<>>)
                  ELSE avifWalk(scanBytes, 0, <<>>, <<>>)

(* a box of size 1 less than 16 bytes before the end of the file: the HEIC *)
(* scanner has reported it, the AVIF scanner stops on it without an error  *)
C26_Witness ==
  /\ scanner = "Heic"
  /\ spc = "resolved"
  /\ Len(visited) > 0
  /\ getUint32BE(scanBytes, visited[Len(visited)]) = 1
  /\ visited[Len(visited)] + 16 > Len(scanBytes)
  /\ Len(errors) = 1
  /\ avifWalk(scanBytes, 0, <<>>, <<>>).errors = <<>>

(* ---- the promise of extractExifData ---- *)

C30_QueueCounters ==
  /\ processedFiles <= totalFiles
  /\ processedFiles + Len(fileQueue) = accepted

(* the part of C30 that holds: the files taken and the files waiting add   *)
(* up to the files accepted                                                *)
C30_SumOfCounters == processedFiles + Len(fileQueue) = accepted

(* handleFiles was called while a file was being analysed, and the file it *)
(* added has been taken from the queue                                     *)
C30_Witness ==
  /\ isAnalyzing
  /\ accepted = 2
  /\ totalFiles = 1
  /\ processedFiles = 2
  /\ fileQueue = <<>>

(* ---- what the controller makes of the result of the metadata step ---- *)

(* the entries of finalStates whose metadata step returned a result with   *)
(* errors                                                                  *)
WithScanErrors ==
  { k \in 1..Len(finalStates) :
      /\ ~IsNull(finalStates[k].context.scanResult)
      /\ Get(finalStates[k].context.scanResult).errors # <<>> }

(* C29: a file whose ScanResult has a non-empty errors list is marked      *)
(* unsafe, ends in the error state and has each of those errors among its  *)
(* reasons, whether the result is skipped or not                           *)
C29_ScanErrorsAreFatal ==
  \A k \in WithScanErrors :
    /\ ~finalStates[k].context.isSafe
    /\ finalStates[k].state = "error"
    /\ \A e \in Range(Get(finalStates[k].context.scanResult).errors) :
         Reason("error", e) \in Range(finalStates[k].context.reasons)

(* a file that ended as success although its scan result holds an error *)
C29_Witness ==
  \E k \in WithScanErrors :
    /\ Get(finalStates[k].context.scanResult).skipped
    /\ finalStates[k].state = "success"
    /\ finalStates[k].context.reasons = <<>>

(* the results that are not skipped are treated as C29 states *)
C29_UnskippedErrorsAreFatal ==
  \A k \in WithScanErrors :
    ~Get(finalStates[k].context.scanResult).skipped
      => /\ finalStates[k].state = "error"
         /\ \A e \in Range(Get(finalStates[k].context.scanResult).errors) :
              Reason("error", e) \in Range(finalStates[k].context.reasons)

(* ---- structural verification and the final state ---- *)

(* the entries of finalStates whose verdict says the structure is broken *)
StructureFailed ==
  { k \in 1..Len(finalStates) :
      /\ ~IsNull(finalStates[k].context.verdict)
      /\ ~Get(finalStates[k].context.verdict).structuralVerification.isValid }

(* C28: for both values of autoConvertFormat, a file whose structural      *)
(* verification failed ends in the error state and is not offered for      *)
(* download                                                                *)
C28_StructureGuardsSafety ==
  \A k \in StructureFailed :
    /\ finalStates[k].state = "error"
    /\ IsNull(finalStates[k].downloadName)

(* a PNG without IEND, named .jpg, offered for download as .png *)
C28_Witness ==
  /\ autoConvertFormat
  /\ \E k \in StructureFailed :
       /\ finalStates[k].state = "warning"
       /\ finalStates[k].downloadName = Some(<<"photo", "png">>)
       /\ Get(finalStates[k].context.verdict).reason # Null

(* without the conversion the claim holds *)
C28_HoldsWithoutConversion ==
  ~autoConvertFormat => C28_StructureGuardsSafety

(* ---- the markers a JPEG file lacks ---- *)

(* the positions of the isMissing items with the key in a metadata list *)
MissingItemsOf(items, key) ==
  { k \in 1..Len(items) : items[k].isMissing /\ items[k].key = key }

EssentialMarkers == Range(CRITICAL_MARKERS) \cup Range(COMMON_MARKERS)

WithVerdict ==
  { k \in 1..Len(finalStates) : ~IsNull(finalStates[k].context.verdict) }

VerdictFields ==
  { "isValid", "isExtensionValid", "detectedFormat", "magicNumber", "extension",
    "dimensions", "structuralVerification", "reason" }

FilesInOrder ==
  [ k \in 1..Len(finalStates) |-> finalStates[k].file ]
  \o (IF IsNull(analysisContext) THEN <<>> ELSE << Get(analysisContext).file >>)
  \o fileQueue

(* one file at a time: one loop at most, running exactly while         *)
(* isAnalyzing is true; one file in flight while it runs; the number of    *)
(* files taken is the number finished and in flight; and a step only       *)
(* moves files from the head of the queue to the analysis and from there   *)
(* to the finished files, or adds files at the end of the queue            *)
OneAtATimeInOrder ==
  /\ [](loops \in {0, 1})
  /\ [](isAnalyzing <=> loops = 1)
  /\ [](isAnalyzing <=> ~IsNull(analysisContext))
  /\ [](processedFiles = Len(finalStates)
                           + (IF IsNull(analysisContext) THEN 0 ELSE 1))
  /\ [][ \/ finalStates' = <<>>
         \/ /\ Len(FilesInOrder') >= Len(FilesInOrder)
            /\ SubSeq(FilesInOrder', 1, Len(FilesInOrder)) = FilesInOrder ]_allVars

(* C23: files are analysed one at a time in the order of arrival, and      *)
(* every file accepted by handleFiles is analysed in the end: the queue    *)
(* empties and the loop ends                                               *)
C23_EveryFileIsAnalysed ==
  /\ OneAtATimeInOrder
  /\ [](isAnalyzing => <>(~isAnalyzing /\ fileQueue = <<>>))

(* a file was added while another was analysed, and it waits behind a scan *)
(* whose onload handler threw                                              *)
C23_Witness ==
  /\ cpc = "metadata"
  /\ spc = "uncaught"
  /\ isAnalyzing
  /\ Len(fileQueue) = 1
  /\ accepted = 2

====
